---- MODULE Spec2Model ----
(***************************************************************************)
(* Supervisor-agent workflow of the AI code reviewer                       *)
(* (src/src/workflows/base-supervisor-workflow.ts).                        *)
(*                                                                         *)
(* A workflow instance owns one checkpointer (MemorySaver) and compiles a  *)
(* graph  START -> supervisor,  supervisor -> x.next (conditional),        *)
(* member -> supervisor  on every execute().  graph.invoke runs the graph  *)
(* one node at a time under recursionLimit, with the state of the thread   *)
(* `${owner}/${repo}#${prNumber}` loaded from and saved to the instance's  *)
(* checkpointer after every node.                                          *)
(*                                                                         *)
(* formatAgentName works on the characters of a name: Characters spells    *)
(* each name of the model as a sequence of one-character strings.          *)
(***************************************************************************)
EXTENDS Integers, Sequences, FiniteSets, TLC

VARIABLES
    pc,              \* per run: "idle", "supervisor", "agent", "done", "failed"
    inst,            \* per run: the workflow instance execute() was called on (0: none yet)
    pr,              \* per run: the (owner, repo, prNumber) arguments of execute()
    messages,        \* per run: the graph's messages channel
    next,            \* per run: the graph's next channel
    executed,        \* per run: node executions (supersteps) of this invoke
    supervisorCalls, \* per run: supervisor node executions of this invoke
    decisions,       \* per run: the oracle's responses, in order
    loaded,          \* per run: the messages read from the checkpoint at start
    error,           \* per run: the error execute() threw, or "none"
    checkpoints,     \* per instance and thread id: the latest saved state
    kind,            \* the workflow class of the instances: "review" or "assistant"
    userContext,     \* per run: the graph's userContext channel (assistant only)
    returned,        \* per run: <<the message execute() returned>>, or <<>>
    calls,           \* the execute() calls the callers have still to make
    \* The webhook service (WebhookService, GitHubServiceFactory):
    wpc,             \* per request: where its handler is suspended, or "waiting", "responded"
    payload,         \* per request: headers and body of the request
    status,          \* per request: the HTTP status sent (0: none yet)
    services,        \* per request: the bundle processWebhook took from currentServices
    started,         \* per request: the workflow services whose execute was called
    comments,        \* per request: the comments createPRComment posted
    fetched,         \* per request: <<what getPullRequest(Files) returned>>, or <<>>
    currentServices,        \* WebhookService.currentServices
    currentInstallationId,  \* WebhookService.currentInstallationId (0: undefined)
    isInitialized,          \* WebhookService.isInitialized
    serviceInstances,       \* GitHubServiceFactory.serviceInstances, by cache key
    created,                \* the bundles createServiceInstances has built so far
    clears,                 \* the GitHubServiceFactory.clearCache() calls so far
    epoch,           \* per request: the value of clears when its bundle was asked for
    traffic,         \* the webhooks delivered: "mixed", "installations", "comments"
    \* The prompt files and their loader (PromptLoader):
    promptFiles,     \* per workflow name: the edition of workflow.yml and of the .md files
    promptsCache,    \* PromptLoader.promptsCache, by cache key: <<prompts>> or <<>>
    definition,      \* per run: <<the workflow definition execute() built>>, or <<>>
    reads,           \* the loads that went to the file system so far
    cachedObject,    \* by cache key: the read that made the cached object, or 0
    loadResult,      \* the latest load: its key, whether it threw, what it returned
    \* The configuration (ConfigurationManager):
    env,             \* process.env: the GITHUB_* variables
    configInstance,  \* ConfigurationManager.instance: <<its config>>, or <<>>
    configResult     \* the outcome of the latest getInstance(): "none", "returned", "threw"

workflowVars == <<pc, inst, pr, messages, next, executed, supervisorCalls,
                  decisions, loaded, error, checkpoints, kind, userContext,
                  returned, calls>>

\* The singletons' fields.
singletonVars == <<currentServices, currentInstallationId, isInitialized,
                   serviceInstances, created, clears, traffic>>

webhookVars == <<wpc, payload, status, services, started, comments, fetched,
                 epoch, singletonVars>>

promptVars == <<promptFiles, promptsCache, definition, reads, cachedObject,
                loadResult>>

configVars == <<env, configInstance, configResult>>

vars == <<workflowVars, webhookVars, promptVars, configVars>>

----------------------------------------------------------------------------
(* Bounds of the model *)

\* config.recursionLimit of the review workflow (80), scaled down.
RecursionLimit == 6

\* config.recursionLimit of the interactive assistant (50), scaled down.
AssistantRecursionLimit == 4

\* The execute() calls of one behaviour.
Runs == {1, 2}

\* Workflow instances (one per service bundle the factory creates).
Insts == {1, 2}

\* The pull requests execute() is called for.
PRs == { [owner |-> "acme", repo |-> "api", number |-> 1],
         [owner |-> "acme", repo |-> "api", number |-> 2] }

----------------------------------------------------------------------------
(* Names *)

END == "__end__"

\* config.members (the first two of the five declared members).
Members == <<"summarizer", "security_agent">>

Range(s) == { s[i] : i \in 1..Len(s) }

\* setupRouting: this.options = [END, ...this.config.members]
Options == <<END>> \o Members

\* A destination the routing schema does not list.
UnknownName == "docs_agent"

\* The empty string.
EmptyName == ""

----------------------------------------------------------------------------
(* formatAgentName *)

LowerCase == <<"a", "b", "c", "d", "e", "f", "g", "h", "i", "j", "k", "l", "m",
               "n", "o", "p", "q", "r", "s", "t", "u", "v", "w", "x", "y", "z">>

UpperCase == <<"A", "B", "C", "D", "E", "F", "G", "H", "I", "J", "K", "L", "M",
               "N", "O", "P", "Q", "R", "S", "T", "U", "V", "W", "X", "Y", "Z">>

\* The characters of the names of the model.
Characters(name) ==
    CASE name = "summarizer" ->
            <<"s", "u", "m", "m", "a", "r", "i", "z", "e", "r">>
      [] name = "security_agent" ->
            <<"s", "e", "c", "u", "r", "i", "t", "y", "_", "a", "g", "e", "n", "t">>
      [] name = "docs_agent" ->
            <<"d", "o", "c", "s", "_", "a", "g", "e", "n", "t">>
      [] name = "__end__" -> <<"_", "_", "e", "n", "d", "_", "_">>
      [] name = "ai-code-reviewer" ->
            <<"a", "i", "-", "c", "o", "d", "e", "-", "r", "e", "v", "i", "e",
              "w", "e", "r">>
      [] name = "ai-reviewer" ->
            <<"a", "i", "-", "r", "e", "v", "i", "e", "w", "e", "r">>
      [] name = "recurly-on" ->
            <<"r", "e", "c", "u", "r", "l", "y", "-", "o", "n">>
      [] name = "github-actions" ->
            <<"g", "i", "t", "h", "u", "b", "-", "a", "c", "t", "i", "o", "n", "s">>
      [] name = "[bot]" -> <<"[", "b", "o", "t", "]">>
      [] name = "bot" -> <<"b", "o", "t">>
      [] name = "" -> <<>>

\* String.prototype.toLowerCase on one character and on a string.
ToLowerCase(c) ==
    IF \E i \in 1..Len(UpperCase) : UpperCase[i] = c
    THEN LowerCase[CHOOSE i \in 1..Len(UpperCase) : UpperCase[i] = c]
    ELSE c

ToLowerCaseAll(s) == [i \in 1..Len(s) |-> ToLowerCase(s[i])]

\* String.prototype.toUpperCase on one character.
ToUpperCase(c) ==
    IF \E i \in 1..Len(LowerCase) : LowerCase[i] = c
    THEN UpperCase[CHOOSE i \in 1..Len(LowerCase) : LowerCase[i] = c]
    ELSE c

\* name.split('_'), on the characters of name
Split(name) ==
    LET RECURSIVE go(_, _, _)
        go(i, word, words) ==
            IF i > Len(name) THEN Append(words, word)
            ELSE IF name[i] = "_" THEN go(i + 1, <<>>, Append(words, word))
            ELSE go(i + 1, Append(word, name[i]), words)
    IN go(1, <<>>, <<>>)

\* word.charAt(0).toUpperCase() + word.slice(1)
Capitalize(word) ==
    IF word = <<>> THEN <<>>
    ELSE <<ToUpperCase(word[1])>> \o SubSeq(word, 2, Len(word))

\* words.join('_')
Join(words) ==
    LET RECURSIVE go(_)
        go(i) == IF i > Len(words) THEN <<>>
                 ELSE IF i = 1 THEN words[1] \o go(2)
                 ELSE <<"_">> \o words[i] \o go(i + 1)
    IN go(1)

formatAgentName(name) ==
    LET words == Split(Characters(name))
    IN Join([i \in 1..Len(words) |-> Capitalize(words[i])])

----------------------------------------------------------------------------
(* State model: initializeBaseState *)

\* A reducer that overwrites instead of concatenating.
MessagesReducerOverwrite(x, y) == y

\* messages: reducer (x, y) => x.concat(y)
MessagesReducer(x, y) == x \o y

\* A value that may be null or undefined: [defined, value].
Undefined == [defined |-> FALSE, value |-> EmptyName]

Defined(v) == [defined |-> TRUE, value |-> v]

\* A reducer that falls back to END whenever the update carries no value.
NextReducerResetting(x, y) == IF y.defined THEN y.value ELSE END

\* next: reducer (x, y) => y ?? x ?? END
NextReducer(x, y) ==
    IF y.defined THEN y.value
    ELSE IF x.defined THEN x.value
    ELSE END

\* InteractiveContext: what started a run of the interactive assistant.
\* handlePRUpdate passes { type: 'push', changedFiles }, handleBotCommand
\* { type: 'mention', userQuery, user }.
PushContext == [type |-> "push"]

MentionContext == [type |-> "mention"]

\* userContext: default () => ({ type: 'comment' })
DefaultUserContext == [type |-> "comment"]

\* execute() called without a context.
NoContext == [defined |-> FALSE, value |-> DefaultUserContext]

Given(context) == [defined |-> TRUE, value |-> context]

\* The context arguments of the callers: the review workflow is executed
\* without one, the interactive assistant with or without one.
Contexts ==
    IF kind = "assistant"
    THEN {NoContext, Given(PushContext), Given(MentionContext)}
    ELSE {NoContext}

\* userContext: reducer (x, y) => y ?? x
UserContextReducer(x, y) == IF y.defined THEN y.value ELSE x

\* getContextState: { userContext: context } in the interactive assistant,
\* {} in the base class; execute calls it only if (context).
getContextState(context) == IF kind = "assistant" THEN context ELSE NoContext

\* The channels' default values: messages [], next END, userContext
\* { type: 'comment' } (the review workflow declares no userContext channel:
\* there the field is never written).
DefaultState ==
    [messages |-> <<>>, next |-> END, userContext |-> DefaultUserContext]

----------------------------------------------------------------------------
(* execute: thread id, initial message *)

\* A thread id that leaves the pull request number out.
ThreadIdWithoutNumber(owner, repo, prNumber) == <<owner, "/", repo>>

\* thread_id: `${owner}/${repo}#${prNumber}`
ThreadId(owner, repo, prNumber) == <<owner, "/", repo, "#", ToString(prNumber)>>

ThreadOf(p) == ThreadId(p.owner, p.repo, p.number)

ThreadIds == { ThreadOf(p) : p \in PRs }

\* Message content: a text, and for the output of a reasoning session the
\* texts of the messages the session was given (the output is a function of
\* the agent and of them).
Content(text, seen) == [text |-> text, seen |-> seen]

Seen(msgs) == [i \in 1..Len(msgs) |-> msgs[i].content.text]

\* createInitialMessage of the review workflow: a fixed text with owner,
\* repository and pull request number filled in.
createInitialMessage(owner, repo, prNumber) ==
    Content(<<"You are tasked with reviewing a pull request.", owner, repo,
              ToString(prNumber)>>, <<>>)

\* createInitialMessage of the interactive assistant: the text depends on
\* context.type ('Provide general assistance for ...' without a context).
createInitialMessageInteractive(owner, repo, prNumber, context) ==
    Content(<<IF ~context.defined THEN "Provide general assistance for"
              ELSE IF context.value.type = "mention" THEN "User question about"
              ELSE IF context.value.type = "push" THEN "New changes pushed to"
              ELSE "User commented on",
              owner, repo, ToString(prNumber)>>, <<>>)

\* this.createInitialMessage(owner, repo, prNumber, context) of the subclass.
InitialMessage(owner, repo, prNumber, context) ==
    IF kind = "assistant"
    THEN createInitialMessageInteractive(owner, repo, prNumber, context)
    ELSE createInitialMessage(owner, repo, prNumber)

\* new HumanMessage({ content, name }); run records which run created it.
HumanMessage(content, name, r) == [content |-> content, name |-> name, run |-> r]

\* The message without the record of the run that created it.
Plain(m) == [content |-> m.content, name |-> m.name]

PlainSeq(s) == [i \in 1..Len(s) |-> Plain(s[i])]

\* createReactAgent({ llm, tools, prompt }).invoke(state): the content of the
\* last message of the session, determined by the agent's prompt and the
\* messages of the state it was invoked with.
ReasoningSession(agentName, state) ==
    Content(<<"final output of", agentName>>, Seen(state.messages))

\* getAgentConfigs: the agents declared with tools (the summarizer reads the
\* pull request; security_agent has tools: []).
HasTools(agentName) == agentName = "summarizer"

\* agent.invoke(state): the session's messages are the state's messages,
\* then for an agent with tools a tool call and its result, then the final
\* output.
AgentInvoke(agentName, state, r) ==
    [messages |->
        state.messages
        \o (IF HasTools(agentName)
            THEN <<HumanMessage(Content(<<"tool call of", agentName>>, <<>>), <<>>, r),
                   HumanMessage(Content(<<"tool result for", agentName>>, <<>>), <<>>, r)>>
            ELSE <<>>)
        \o <<HumanMessage(ReasoningSession(agentName, state), <<>>, r)>>]

\* An agent node that returns everything the session added.
agentNodeWholeSession(agentName, state, r) ==
    LET result == AgentInvoke(agentName, state, r)
    IN SubSeq(result.messages, Len(state.messages) + 1, Len(result.messages))

\* agentNode's return value: { messages: [new HumanMessage({ content:
\* lastMessage.content, name: this.formatAgentName(agentConfig.name) })] }
agentNode(agentName, state, r) ==
    LET result == AgentInvoke(agentName, state, r)
        lastMessage == result.messages[Len(result.messages)]
    IN <<HumanMessage(lastMessage.content, formatAgentName(agentName), r)>>

\* The arguments of the forced 'route' tool call: x?.tool_calls?.[0]?.args.
\* The schema is sent to the model as a description; the arguments that come
\* back are not parsed against it.
OracleResponses ==
    { Defined(d) : d \in Range(Options) \cup {UnknownName, EmptyName} }
        \cup {Undefined}

----------------------------------------------------------------------------
(* Graph: buildWorkflow, and graph.invoke under recursionLimit *)

\* this.config.recursionLimit of the subclass.
ConfiguredRecursionLimit ==
    IF kind = "assistant" THEN AssistantRecursionLimit ELSE RecursionLimit

\* recursionLimit: this.config.recursionLimit || 100
DefaultRecursionLimit == 100

EffectiveRecursionLimit ==
    IF ConfiguredRecursionLimit = 0 THEN DefaultRecursionLimit
    ELSE ConfiguredRecursionLimit

\* A graph that is run without a recursion limit.
OutOfStepsNever(n) == FALSE

\* A limit that counts every node twice.
OutOfStepsHalf(n) == 2 * n >= EffectiveRecursionLimit

\* A limit that allows one node more.
OutOfStepsLate(n) == n > EffectiveRecursionLimit

\* graph.invoke gives up (GraphRecursionError) once the n-th node of the
\* invocation has run and been checkpointed with n at the limit.
OutOfSteps(n) == n >= EffectiveRecursionLimit

\* A supervisor node that also returns the oracle's reply as a message.
SupervisorUpdateWithMessage(state, args, r) ==
    [state EXCEPT
        !.next = NextReducer(Defined(state.next), args),
        !.messages = MessagesReducer(@,
            <<HumanMessage(Content(<<"route">>, <<>>), <<>>, r)>>)]

\* The supervisor node's return value is the args object { next }, so the
\* update writes the next channel through its reducer and no other channel
\* (a missing tool call gives undefined: no write, the reducer is not run).
SupervisorUpdate(state, args, r) ==
    [state EXCEPT !.next = NextReducer(Defined(state.next), args)]

\* An edge that goes to the first member whatever next is.
RouteToFirstMember(state) == Members[1]

\* The conditional edge after the supervisor: (x) => x.next.
RouteAfterSupervisor(state) == state.next

\* The edge evaluation throws on a falsy destination (the empty string).
BranchThrows(dest) == dest = EmptyName

\* The node the destination starts: a declared agent node, or none (END is
\* the end of the run; a name without a node triggers nothing).
HasNode(dest) == dest \in Range(Members)

\* One checkpointer shared by every instance.
LoadCheckpointShared(i, t) ==
    IF checkpoints[1][t] = <<>> THEN DefaultState ELSE checkpoints[1][t][1]

\* A graph compiled without a checkpointer: every run starts afresh.
LoadCheckpointNone(i, t) == DefaultState

\* The checkpoint of a thread on an instance, or the channel defaults.
LoadCheckpoint(i, t) ==
    IF checkpoints[i][t] = <<>> THEN DefaultState ELSE checkpoints[i][t][1]

SaveCheckpoint(i, t, state) == [checkpoints EXCEPT ![i][t] = <<state>>]

\* A result whose last message is taken from the front.
ResultFirstMessage(result) == result.messages[1]

\* const lastMessage = result.messages[result.messages.length - 1]
ResultLastMessage(result) == result.messages[Len(result.messages)]

NoPR == [owner |-> "", repo |-> "", number |-> 0]

----------------------------------------------------------------------------
(* Webhook layer: requests, signatures, service bundles *)

\* The webhook requests of one behaviour.
Reqs == {1, 2, 3}

\* How many of them are delivered: two webhooks of any kind, or three
\* correctly signed webhooks of installations 1 and 2.
Deliveries == IF traffic = "installations" THEN 3 ELSE 2

\* The installation ids of the payloads (body.installation.id); 0: the body
\* has no installation.
Installations == {1, 2}

\* x-github-event and body.action of the requests.
EventActions ==
    ([event : {"pull_request"},
      action : {"opened", "ready_for_review", "reopened", "synchronize",
                "closed", "edited"}])
    \cup [event : {"installation"}, action : {"created", "deleted", "suspend"}]
    \cup [event : {"installation_repositories"}, action : {"deleted"}]
    \cup [event : {"ping"}, action : {"unknown"}]
    \cup [event : {"issue_comment", "pull_request_review_comment"},
          action : {"created"}]

\* GITHUB_WEBHOOK_SECRET, and a key of somebody who does not know it.
WebhookSecret == "webhook secret"

OtherSecret == "guessed secret"

\* The bytes of a request body: a JSON value, written compactly (as
\* JSON.stringify writes it) or with white space between the tokens.
Raw(body, spaced) == [body |-> body, spaced |-> spaced]

\* express.json(): JSON.parse of the bytes.
JsonParse(raw) == raw.body

\* JSON.stringify(req.body)
JsonStringify(body) == Raw(body, FALSE)

\* crypto.createHmac('sha256', key).update(data).digest('hex'), with the
\* 'sha256=' prefix: equal exactly for equal key and equal data.
Hmac(key, data) == <<"sha256=", key, data>>

\* The header is missing.
NoSignature == <<>>

\* The x-hub-signature-256 headers of the model: none, the sender's HMAC of
\* the bytes sent under the webhook secret, an HMAC under another key.
SignatureKinds == {"absent", "signed", "forged"}

SignatureHeader(sig, raw) ==
    CASE sig = "absent" -> NoSignature
      [] sig = "signed" -> Hmac(WebhookSecret, raw)
      [] sig = "forged" -> Hmac(OtherSecret, raw)

\* The logins of the authors of comments: a person, the login GitHub gives
\* the app's own comments (the app's name followed by [bot]), the app's
\* name alone, and the Actions account spelled with capitals.
CommentUsers ==
    { <<"a", "n", "n">>,
      Characters("ai-code-reviewer") \o Characters("[bot]"),
      Characters("ai-code-reviewer"),
      <<"G", "i", "t", "H", "u", "b", "-", "A", "c", "t", "i", "o", "n", "s">> }

\* The bodies of comments: no mention, a bare mention, a mention in capitals
\* followed by a question, and a mention of the account ai-reviewer2
\* followed by a bare mention of the bot.
CommentBodies ==
    { <<"o", "k">>,
      <<"@">> \o Characters("ai-reviewer"),
      <<"@", "A", "I", "-", "R", "e", "v", "i", "e", "w", "e", "r", " ",
        "w", "h", "y", "?">>,
      <<"@">> \o Characters("ai-reviewer") \o <<"2", " ", "@">>
        \o Characters("ai-reviewer") }

\* The pull request, installation and ping requests (the white space of the
\* bytes is varied for the signed requests, the only ones whose bytes are
\* looked at).
EventPayloads ==
    { p \in [installation : Installations \cup {0},
             event : {"pull_request", "installation",
                      "installation_repositories", "ping"},
             action : {"opened", "ready_for_review", "reopened", "synchronize",
                       "closed", "edited", "created", "deleted", "suspend",
                       "unknown"},
             draft : BOOLEAN, merged : BOOLEAN,
             spaced : BOOLEAN, signature : SignatureKinds,
             user : {<<>>}, body : {<<>>}, onPullRequest : {FALSE}] :
        /\ [event |-> p.event, action |-> p.action] \in EventActions
        /\ p.draft => p.event = "pull_request" /\ p.action # "closed"
        /\ p.merged => p.event = "pull_request" /\ p.action = "closed"
        /\ p.spaced => p.signature = "signed" }

\* The comment requests: comment.user.login, comment.body and, for an
\* issue comment, whether issue.pull_request is there.
CommentPayloads ==
    { p \in [installation : Installations,
             event : {"issue_comment", "pull_request_review_comment"},
             action : {"created"},
             draft : {FALSE}, merged : {FALSE},
             spaced : {FALSE}, signature : {"signed"},
             user : CommentUsers, body : CommentBodies,
             onPullRequest : BOOLEAN] :
        p.event = "pull_request_review_comment" => p.onPullRequest }

\* The requests that can arrive.
AllPayloads == EventPayloads \cup CommentPayloads

\* The requests of a behaviour: two requests of many kinds (pull requests
\* in every state, a created or deleted installation, pings, with and
\* without installation id and signature), or three correctly signed
\* requests of the installations: pull requests opened or pushed to, and
\* every installation event, or two correctly signed requests of one
\* installation: comments of every author and body, and pull requests
\* opened or pushed to.
Payloads ==
    IF traffic = "comments"
    THEN { p \in AllPayloads :
             /\ p.installation = 1
             /\ p.signature = "signed" /\ ~p.spaced /\ ~p.draft
             /\ \/ p.event \in {"issue_comment", "pull_request_review_comment"}
                \/ p.event = "pull_request"
                     /\ p.action \in {"opened", "synchronize"} }
    ELSE IF traffic = "installations"
    THEN { p \in AllPayloads :
             /\ p.installation # 0
             /\ p.signature = "signed" /\ ~p.spaced /\ ~p.draft
             /\ \/ p.event \in {"installation", "installation_repositories"}
                \/ p.event = "pull_request"
                     /\ p.action \in {"opened", "synchronize"} }
    ELSE { p \in AllPayloads :
             /\ p.event \in {"pull_request", "installation", "ping"}
             /\ p.action # "suspend" }

NoPayload ==
    [installation |-> 0, event |-> "", action |-> "", draft |-> FALSE,
     merged |-> FALSE, spaced |-> FALSE, signature |-> "absent",
     user |-> <<>>, body |-> <<>>, onPullRequest |-> FALSE]

\* req.body as express.json() parsed it from the bytes of the request:
\* installation.id, action, pull_request.draft, pull_request.merged,
\* comment.user.login, comment.body, issue.pull_request.
BodyOf(p) ==
    [installation |-> p.installation, action |-> p.action, draft |-> p.draft,
     merged |-> p.merged, user |-> p.user, body |-> p.body,
     onPullRequest |-> p.onPullRequest]

RawOf(p) == Raw(BodyOf(p), p.spaced)

\* GitHubService.verifyWebhookSignature(payload, signature): timingSafeEqual
\* of the header and 'sha256=' + HMAC(webhookSecret, payload); false when
\* they differ (also in length, where timingSafeEqual throws).
verifyWebhookSignature(webhookSecret, payloadString, signature) ==
    signature = Hmac(webhookSecret, payloadString)

\* A verification that rejects a request without the header.
verifySignatureStrict(p) ==
    /\ SignatureHeader(p.signature, RawOf(p)) # NoSignature
    /\ verifyWebhookSignature(WebhookSecret, JsonStringify(BodyOf(p)),
                              SignatureHeader(p.signature, RawOf(p)))

\* WebhookService.verifySignature(req): true without the header, otherwise
\* verifyWebhookSignature(JSON.stringify(req.body), signature).
verifySignature(p) ==
    LET signature == SignatureHeader(p.signature, RawOf(p))
    IN IF signature = NoSignature THEN TRUE
       ELSE verifyWebhookSignature(WebhookSecret, JsonStringify(BodyOf(p)),
                                   signature)

\* errorMessage.includes(words), on messages spelled as sequences of words.
Includes(message, words) ==
    \E i \in 1..(Len(message) - Len(words) + 1) :
        SubSeq(message, i, i + Len(words) - 1) = words

\* The messages of the errors a request can end with.
InstallationIdRequiredForEvent ==
    <<"GitHub", "App", "installation", "ID", "is", "required", "for", "this",
      "webhook", "event">>

InstallationIdRequiredInPayload ==
    <<"GitHub", "App", "installation", "ID", "is", "required", "in",
      "webhook", "payload">>

InvalidWebhookSignature == <<"Invalid", "webhook", "signature">>

FailedToCreatePRComment == <<"Failed", "to", "create", "PR", "comment">>

\* sendErrorResponse(res, error, statusCode): the status sent (statusCode 0:
\* none given).
sendErrorResponse(errorMessage, statusCode) ==
    IF Includes(errorMessage, <<"configuration">>) THEN 500
    ELSE IF Includes(errorMessage, <<"Failed", "to", "parse", "webhook">>) THEN 400
    ELSE IF Includes(errorMessage, <<"missing", "repository", "information">>) THEN 400
    ELSE IF Includes(errorMessage, <<"installation", "ID", "is", "required">>) THEN 400
    ELSE IF Includes(errorMessage, <<"Invalid", "webhook", "signature">>) THEN 401
    ELSE IF statusCode # 0 THEN statusCode
    ELSE 500

\* WebhookController.requiresInstallationId(req)
requiresInstallationId(p) ==
    IF p.event = "ping" THEN FALSE
    ELSE IF p.event \in {"installation", "installation_repositories"} THEN FALSE
    ELSE TRUE

\* A service bundle { githubService, reviewService, assistantService }: the
\* installation id its GitHub client was created with, and the number of the
\* createServiceInstances call that built it.
Bundle(installationId, serial) ==
    [installationId |-> installationId, serial |-> serial]

\* undefined in place of a bundle.
NoServices == Bundle(0, 0)

\* A call service.execute(owner, repo, prNumber, context) made by a handler.
Call(service, context) == [service |-> service, context |-> context]

\* The responses of getPullRequestFiles: the changed files of a pull request.
FileLists ==
    { <<>>,
      <<[filename |-> "src/a.ts", status |-> "modified"],
        [filename |-> "src/b.ts", status |-> "added"]>> }

\* files.map(f => f.filename)
Filenames(files) == [i \in 1..Len(files) |-> files[i].filename]

\* { type: 'push', changedFiles }
PushContextOf(changedFiles) == [type |-> "push", changedFiles |-> changedFiles]

\* A cache key that leaves the installation id out.
generateCacheKeyShared(installationId) == <<"app">>

\* generateCacheKey: `app-${installationId}`
generateCacheKey(installationId) == <<"app-", ToString(installationId)>>

CacheKeys ==
    { generateCacheKey(i) : i \in Installations } \cup {generateCacheKeyShared(0)}

----------------------------------------------------------------------------
(* ConfigurationManager: the GitHub App configuration read from process.env *)

\* The GITHUB_* variables: each not set, set to the empty string, or set to
\* a text.
Envs ==
    [GITHUB_APP_ID : {Undefined, Defined(EmptyName), Defined("12345")},
     GITHUB_PRIVATE_KEY_PATH : {Undefined, Defined(EmptyName), Defined("./key.pem")},
     GITHUB_WEBHOOK_SECRET :
        {Undefined, Defined(EmptyName), Defined(WebhookSecret), Defined(OtherSecret)},
     GITHUB_APP_NAME : {Undefined, Defined("recurly-on")}]

\* !x for a string that may be undefined.
Falsy(x) == ~x.defined \/ x.value = EmptyName

\* x || fallback
OrElse(x, fallback) == IF Falsy(x) THEN fallback ELSE x.value

\* missingVars, in the order in which they are pushed.
MissingVars(e) ==
    (IF Falsy(e.GITHUB_APP_ID) THEN <<"GITHUB_APP_ID">> ELSE <<>>)
    \o (IF Falsy(e.GITHUB_PRIVATE_KEY_PATH)
        THEN <<"GITHUB_PRIVATE_KEY_PATH">> ELSE <<>>)
    \o (IF Falsy(e.GITHUB_WEBHOOK_SECRET)
        THEN <<"GITHUB_WEBHOOK_SECRET">> ELSE <<>>)

\* The configuration object made from the environment.
ConfigurationOf(e) ==
    [appId |-> e.GITHUB_APP_ID, privateKeyPath |-> e.GITHUB_PRIVATE_KEY_PATH,
     webhookSecret |-> e.GITHUB_WEBHOOK_SECRET,
     appName |-> OrElse(e.GITHUB_APP_NAME, "ai-code-reviewer")]

\* A loader that returns the configuration without validating it.
loadWithoutValidation(e) ==
    [threw |-> FALSE, missingVars |-> <<>>, config |-> ConfigurationOf(e)]

\* loadAndValidateConfiguration(): throws when a required variable is
\* missing, otherwise returns the configuration.
loadAndValidateConfiguration(e) ==
    IF Len(MissingVars(e)) > 0
    THEN [threw |-> TRUE, missingVars |-> MissingVars(e),
          config |-> ConfigurationOf(e)]
    ELSE [threw |-> FALSE, missingVars |-> <<>>, config |-> ConfigurationOf(e)]

\* The environment of the deployment.
DeployedEnv ==
    [GITHUB_APP_ID |-> Defined("12345"),
     GITHUB_PRIVATE_KEY_PATH |-> Defined("./key.pem"),
     GITHUB_WEBHOOK_SECRET |-> Defined(WebhookSecret),
     GITHUB_APP_NAME |-> Undefined]

\* The configuration once the controller, the webhook service and the
\* factory have been constructed: each constructor called getInstance().
ConfigurationLoaded ==
    /\ env = DeployedEnv
    /\ configInstance = <<loadAndValidateConfiguration(DeployedEnv).config>>
    /\ configResult = "returned"

----------------------------------------------------------------------------
(* PromptLoader: the prompt files of a workflow and the cache of what was
   read from them *)

\* The directories of PROMPTS_DIR.
WorkflowNames == {"code-reviewer", "interactive-assistant"}

\* The name a workflow class passes to the loader.
WorkflowName ==
    IF kind = "assistant" THEN "interactive-assistant" ELSE "code-reviewer"

\* The editions of a prompt file: as deployed, and after an edit.
Editions == {1, 2}

\* workflow.yml of an edition: its three entries.
YamlContent(edition) ==
    <<[key |-> "systemPrompt", value |-> <<"system prompt", edition>>],
      [key |-> "routingDescription", value |-> <<"routing description", edition>>],
      [key |-> "humanPrompt", value |-> <<"human prompt", edition>>]>>

\* yaml.parse(yamlContent) as WorkflowPrompts
YamlParse(yamlContent) ==
    [k \in { yamlContent[i].key : i \in 1..Len(yamlContent) } |->
        yamlContent[CHOOSE i \in 1..Len(yamlContent) : yamlContent[i].key = k].value]

\* The files of a workflow directory, by the characters of their names.
DirectoryFiles ==
    { Characters("summarizer") \o <<".", "m", "d">>,
      <<"s", "e", "c", "u", "r", "i", "t", "y", "-", "a", "g", "e", "n", "t",
        ".", "m", "d">>,
      <<"w", "o", "r", "k", "f", "l", "o", "w", ".", "y", "m", "l">> }

\* file.endsWith('.md')
EndsWithMd(file) ==
    Len(file) >= 3 /\ SubSeq(file, Len(file) - 2, Len(file)) = <<".", "m", "d">>

\* file.replace('.md', ''): the first occurrence is removed.
RemoveMd(file) ==
    LET at == { i \in 1..(Len(file) - 2) : SubSeq(file, i, i + 2) = <<".", "m", "d">> }
    IN IF at = {} THEN file
       ELSE LET i == CHOOSE j \in at : \A k \in at : j <= k
            IN SubSeq(file, 1, i - 1) \o SubSeq(file, i + 3, Len(file))

\* .replace(/-/g, '_')
DashesToUnderscores(name) ==
    [i \in 1..Len(name) |-> IF name[i] = "-" THEN "_" ELSE name[i]]

\* The agent name of a prompt file.
AgentNameOfFile(file) == DashesToUnderscores(RemoveMd(file))

\* A .md file of an edition; the file ends with a line break.
MarkdownContent(file, edition) ==
    [text |-> <<"instructions in", file, edition>>, padded |-> TRUE]

\* loadMarkdownFile: fs.readFileSync(filePath, 'utf8').trim()
loadMarkdownFile(content) == [content EXCEPT !.padded = FALSE]

\* A file that fs.readFileSync or fs.readdirSync cannot read (removed, or
\* no permission), in place of an edition.
Unreadable == 0

\* loadAgentPrompts reading the directory: one entry per .md file other
\* than workflow.md, under the agent name made from the file name.
ReadAgentPrompts(workflowName) ==
    LET agentFiles == { f \in DirectoryFiles :
                          EndsWithMd(f)
                            /\ f # <<"w", "o", "r", "k", "f", "l", "o", "w",
                                     ".", "m", "d">> }
    IN [a \in { AgentNameOfFile(f) : f \in agentFiles } |->
           loadMarkdownFile(MarkdownContent(
               CHOOSE f \in agentFiles : AgentNameOfFile(f) = a,
               promptFiles[workflowName].md))]

\* loadWorkflowPrompts reading workflow.yml.
ReadWorkflowPrompts(workflowName) ==
    YamlParse(YamlContent(promptFiles[workflowName].yml))

WorkflowKey(workflowName) == <<"workflow-", workflowName>>

AgentsKey(workflowName) == <<"agents-", workflowName>>

PromptCacheKeys ==
    { WorkflowKey(n) : n \in WorkflowNames } \cup { AgentsKey(n) : n \in WorkflowNames }

\* loadAgentPrompts(workflowName): the cached prompts if the cache has the
\* key, otherwise what the directory holds now.
loadAgentPrompts(workflowName) ==
    IF promptsCache[AgentsKey(workflowName)] # <<>>
    THEN promptsCache[AgentsKey(workflowName)][1]
    ELSE ReadAgentPrompts(workflowName)

\* loadAgentPrompts(workflowName) throws 'Could not load agent prompts':
\* the cache has no entry and the directory or a file cannot be read.
loadAgentPromptsThrows(workflowName) ==
    /\ promptsCache[AgentsKey(workflowName)] = <<>>
    /\ promptFiles[workflowName].md = Unreadable

\* A loader that stores nothing.
CacheAfterLoadAgentPromptsForgetting(workflowName) == promptsCache

\* The cache after loadAgentPrompts(workflowName).
CacheAfterLoadAgentPrompts(workflowName) ==
    IF loadAgentPromptsThrows(workflowName) THEN promptsCache
    ELSE [promptsCache EXCEPT ![AgentsKey(workflowName)] =
             <<loadAgentPrompts(workflowName)>>]

\* loadWorkflowPrompts(workflowName): the cached prompts if the cache has
\* the key, otherwise what workflow.yml holds now.
loadWorkflowPrompts(workflowName) ==
    IF promptsCache[WorkflowKey(workflowName)] # <<>>
    THEN promptsCache[WorkflowKey(workflowName)][1]
    ELSE ReadWorkflowPrompts(workflowName)

\* loadWorkflowPrompts(workflowName) throws 'Could not load workflow
\* prompts': the cache has no entry and workflow.yml cannot be read.
loadWorkflowPromptsThrows(workflowName) ==
    /\ promptsCache[WorkflowKey(workflowName)] = <<>>
    /\ promptFiles[workflowName].yml = Unreadable

\* The cache after loadWorkflowPrompts(workflowName).
CacheAfterLoadWorkflowPrompts(workflowName) ==
    IF loadWorkflowPromptsThrows(workflowName) THEN promptsCache
    ELSE [promptsCache EXCEPT ![WorkflowKey(workflowName)] =
             <<loadWorkflowPrompts(workflowName)>>]

\* What a load of cacheKey leaves behind, given the cache after it, whether
\* it threw and what it returned: the count of reads, the objects in the
\* cache and the record of the load.  A load that finds the key reads
\* nothing and returns the cached object; any other load reads, and the
\* object it makes is known by the number of the read.
Loaded(cacheKey, threw, prompts) ==
    LET hit == promptsCache[cacheKey] # <<>>
    IN /\ reads' = IF hit THEN reads ELSE reads + 1
       /\ cachedObject' = IF hit \/ threw THEN cachedObject
                          ELSE [cachedObject EXCEPT ![cacheKey] = reads + 1]
       /\ loadResult' = [key |-> cacheKey, threw |-> threw,
                         returned |-> IF threw THEN <<>> ELSE <<prompts>>,
                         object |-> IF threw THEN 0
                                    ELSE IF hit THEN cachedObject[cacheKey]
                                    ELSE reads + 1,
                         read |-> ~hit]

\* The constructor's WorkflowConfig: members and the three texts of
\* workflow.yml as they were when the instance was constructed (the
\* instances of the model are constructed before the first request, from
\* the files as deployed).
WorkflowConfig ==
    LET workflowPrompts == YamlParse(YamlContent(1))
    IN [members |-> Members,
        systemPrompt |-> workflowPrompts.systemPrompt,
        routingDescription |-> workflowPrompts.routingDescription,
        humanPrompt |-> workflowPrompts.humanPrompt]

\* The tools an agent is declared with.
ToolsOf(agentName) ==
    IF HasTools(agentName)
    THEN <<"get_pull_request", "get_pull_request_files", "get_file_content",
           "get_pull_request_diff">>
    ELSE <<>>

\* getAgentConfigs(): name, tools and systemPrompt: agentPrompts.<name> of
\* every agent.
getAgentConfigs(agentPrompts) ==
    [i \in 1..Len(Members) |->
        [name |-> Members[i], tools |-> ToolsOf(Members[i]),
         systemPrompt |-> agentPrompts[Characters(Members[i])]]]

\* The workflow definition execute() compiles: this.config, and the agent
\* nodes buildWorkflow makes from getAgentConfigs().
BuildWorkflow(agentPrompts) ==
    [config |-> WorkflowConfig, agents |-> getAgentConfigs(agentPrompts)]

\* The loader after the instances were constructed: the constructors have
\* loaded the workflow prompts; the agent prompts have not been asked for.
InitPromptLoader ==
    /\ promptFiles = [n \in WorkflowNames |-> [yml |-> 1, md |-> 1]]
    /\ promptsCache = [k \in PromptCacheKeys |->
          IF k = WorkflowKey(WorkflowName)
          THEN <<YamlParse(YamlContent(1))>> ELSE <<>>]
    /\ definition = [r \in Runs |-> <<>>]
    /\ reads = 1
    /\ cachedObject = [k \in PromptCacheKeys |->
          IF k = WorkflowKey(WorkflowName) THEN 1 ELSE 0]
    /\ loadResult = [key |-> WorkflowKey(WorkflowName), threw |-> FALSE,
                     returned |-> <<YamlParse(YamlContent(1))>>, object |-> 1,
                     read |-> TRUE]

\* The state of the singletons after construction, before any request.
InitWebhook ==
    /\ wpc = [q \in Reqs |-> "waiting"]
    /\ payload = [q \in Reqs |-> NoPayload]
    /\ status = [q \in Reqs |-> 0]
    /\ services = [q \in Reqs |-> NoServices]
    /\ started = [q \in Reqs |-> <<>>]
    /\ comments = [q \in Reqs |-> <<>>]
    /\ fetched = [q \in Reqs |-> <<>>]
    /\ currentServices = NoServices
    /\ currentInstallationId = 0
    /\ isInitialized = FALSE
    /\ serviceInstances = [k \in CacheKeys |-> NoServices]
    /\ created = 0
    /\ clears = 0
    /\ epoch = [q \in Reqs |-> 0]

\* Runs are numbered in the order of their execute() calls, and instances
\* and pull requests in the order in which a run first uses them.
InOrder(r, i, p) ==
    /\ \A q \in Runs : q < r => pc[q] # "idle"
    /\ \A j \in Insts : j < i => \E q \in Runs : inst[q] = j
    /\ \A o \in PRs : o.number < p.number => \E q \in Runs : pr[q] = o

InitRuns(k, n) ==
    /\ InitWebhook
    /\ kind = k
    /\ InitPromptLoader
    /\ calls = n
    /\ userContext = [r \in Runs |-> DefaultState.userContext]
    /\ returned = [r \in Runs |-> <<>>]
    /\ pc = [r \in Runs |-> "idle"]
    /\ inst = [r \in Runs |-> 0]
    /\ pr = [r \in Runs |-> NoPR]
    /\ messages = [r \in Runs |-> DefaultState.messages]
    /\ next = [r \in Runs |-> DefaultState.next]
    /\ executed = [r \in Runs |-> 0]
    /\ supervisorCalls = [r \in Runs |-> 0]
    /\ decisions = [r \in Runs |-> <<>>]
    /\ loaded = [r \in Runs |-> <<>>]
    /\ error = [r \in Runs |-> "none"]
    /\ checkpoints = [i \in Insts |-> [t \in ThreadIds |-> <<>>]]

\* A deployed service: configuration loaded, instances constructed.
InitWorkflow(k, n) ==
    InitRuns(k, n) /\ ConfigurationLoaded /\ traffic = "mixed"

\* The review workflow (InitialCodeReviewService).
Init == InitWorkflow("review", Cardinality(Runs))

\* The interactive assistant (InteractivePRAssistant).
InitAssistant == InitWorkflow("assistant", Cardinality(Runs))

\* The interactive assistant, executed once.
InitAssistantOnce == InitWorkflow("assistant", 1)

\* execute(owner, repo, prNumber, context) up to the first node: the graph
\* is built from this.config and getAgentConfigs(), which asks the loader
\* for the agent prompts; the thread's
\* state is read from the instance's checkpointer, the initial state
\* { messages: [HumanMessage(initialMessage)], ...getContextState(context) }
\* goes through the reducers, and START -> supervisor makes the supervisor
\* the first node.
Execute(r, i, p, context) ==
    /\ pc[r] = "idle"
    /\ calls > 0
    /\ InOrder(r, i, p)
    /\ LET t == ThreadOf(p)
           old == LoadCheckpoint(i, t)
           initialMessage == InitialMessage(p.owner, p.repo, p.number, context)
           initialState == IF context.defined THEN getContextState(context)
                           ELSE NoContext
           state == [messages |-> MessagesReducer(old.messages,
                                    <<HumanMessage(initialMessage, <<>>, r)>>),
                     next |-> old.next,
                     userContext |-> UserContextReducer(old.userContext,
                                                        initialState)]
           agentPrompts == loadAgentPrompts(WorkflowName)
           threw == loadAgentPromptsThrows(WorkflowName)
       IN /\ promptsCache' = CacheAfterLoadAgentPrompts(WorkflowName)
          /\ Loaded(AgentsKey(WorkflowName), threw, agentPrompts)
          /\ inst' = [inst EXCEPT ![r] = i]
          /\ pr' = [pr EXCEPT ![r] = p]
          /\ IF threw
             THEN \* buildWorkflow rethrows, execute rethrows: no graph,
                  \* no state, no checkpoint
                  /\ pc' = [pc EXCEPT ![r] = "failed"]
                  /\ error' = [error EXCEPT ![r] = "PromptsUnavailable"]
                  /\ UNCHANGED <<definition, userContext, loaded, messages,
                                 next, checkpoints>>
             ELSE /\ definition' = [definition EXCEPT ![r] =
                        <<BuildWorkflow(agentPrompts)>>]
                  /\ userContext' = [userContext EXCEPT ![r] = state.userContext]
                  /\ loaded' = [loaded EXCEPT ![r] = old.messages]
                  /\ messages' = [messages EXCEPT ![r] = state.messages]
                  /\ next' = [next EXCEPT ![r] = state.next]
                  /\ checkpoints' = SaveCheckpoint(i, t, state)
                  /\ pc' = [pc EXCEPT ![r] = "supervisor"]
                  /\ UNCHANGED error
    /\ calls' = calls - 1
    /\ UNCHANGED <<executed, supervisorCalls, decisions, kind, returned>>
    /\ UNCHANGED <<webhookVars, promptFiles, configVars>>

\* The supervisor node: supervisorChain returns the route tool call's args,
\* which are the node's state update; then the conditional edge picks the
\* next node from x.next.  When no node follows, graph.invoke returns the
\* state and execute returns its last message.
SupervisorNode(r, args) ==
    /\ pc[r] = "supervisor"
    /\ LET before == [messages |-> messages[r], next |-> next[r],
                      userContext |-> userContext[r]]
           state == SupervisorUpdate(before, args, r)
           dest == RouteAfterSupervisor(state)
           n == executed[r] + 1
       IN /\ executed' = [executed EXCEPT ![r] = n]
          /\ supervisorCalls' = [supervisorCalls EXCEPT ![r] = @ + 1]
          /\ decisions' = [decisions EXCEPT ![r] = Append(@, args)]
          /\ IF BranchThrows(dest)
             THEN /\ pc' = [pc EXCEPT ![r] = "failed"]
                  /\ error' = [error EXCEPT ![r] = "RoutingViolation"]
                  /\ UNCHANGED <<messages, next, userContext, checkpoints,
                                 returned>>
             ELSE /\ messages' = [messages EXCEPT ![r] = state.messages]
                  /\ next' = [next EXCEPT ![r] = state.next]
                  /\ userContext' = [userContext EXCEPT ![r] = state.userContext]
                  /\ checkpoints' = SaveCheckpoint(inst[r], ThreadOf(pr[r]), state)
                  /\ IF OutOfSteps(n)
                     THEN /\ pc' = [pc EXCEPT ![r] = "failed"]
                          /\ error' = [error EXCEPT ![r] = "IterationLimitExceeded"]
                          /\ UNCHANGED returned
                     ELSE /\ pc' = [pc EXCEPT ![r] =
                                      IF HasNode(dest) THEN "agent" ELSE "done"]
                          /\ returned' = [returned EXCEPT ![r] =
                                IF HasNode(dest) THEN <<>>
                                ELSE <<ResultLastMessage(state)>>]
                          /\ UNCHANGED error
    /\ UNCHANGED <<inst, pr, loaded, kind, calls>>
    /\ UNCHANGED <<webhookVars, promptVars, configVars>>

\* The decision oracle fails (timeout, transport error): the node throws.
SupervisorFails(r) ==
    /\ pc[r] = "supervisor"
    /\ executed' = [executed EXCEPT ![r] = @ + 1]
    /\ supervisorCalls' = [supervisorCalls EXCEPT ![r] = @ + 1]
    /\ pc' = [pc EXCEPT ![r] = "failed"]
    /\ error' = [error EXCEPT ![r] = "OracleUnavailable"]
    /\ UNCHANGED <<inst, pr, messages, next, decisions, loaded, checkpoints,
                   kind, userContext, returned, calls>>
    /\ UNCHANGED <<webhookVars, promptVars, configVars>>

\* agentNode of the agent named by next: the reasoning session's last message
\* is appended under the agent's formatted name; member -> supervisor.
AgentNode(r) ==
    /\ pc[r] = "agent"
    /\ LET before == [messages |-> messages[r], next |-> next[r],
                      userContext |-> userContext[r]]
           update == agentNode(next[r], before, r)
           state == [messages |-> MessagesReducer(messages[r], update),
                     next |-> next[r],
                     userContext |-> userContext[r]]
           n == executed[r] + 1
       IN /\ executed' = [executed EXCEPT ![r] = n]
          /\ messages' = [messages EXCEPT ![r] = state.messages]
          /\ checkpoints' = SaveCheckpoint(inst[r], ThreadOf(pr[r]), state)
          /\ IF OutOfSteps(n)
             THEN /\ pc' = [pc EXCEPT ![r] = "failed"]
                  /\ error' = [error EXCEPT ![r] = "IterationLimitExceeded"]
             ELSE /\ pc' = [pc EXCEPT ![r] = "supervisor"]
                  /\ UNCHANGED error
    /\ UNCHANGED <<inst, pr, next, supervisorCalls, decisions, loaded, kind,
                   userContext, returned, calls>>
    /\ UNCHANGED <<webhookVars, promptVars, configVars>>

\* An agent node that logs the failure and hands over to the supervisor.
AgentFailsSwallowed(r) ==
    /\ pc[r] = "agent"
    /\ executed' = [executed EXCEPT ![r] = @ + 1]
    /\ pc' = [pc EXCEPT ![r] = "supervisor"]
    /\ error' = [error EXCEPT ![r] = "AgentFailure"]
    /\ UNCHANGED <<inst, pr, messages, next, supervisorCalls, decisions, loaded,
                   checkpoints, kind, userContext, returned, calls>>
    /\ UNCHANGED <<webhookVars, promptVars, configVars>>

\* The reasoning session or one of its tool calls fails: agent.invoke rejects,
\* agentNode has no catch, graph.invoke rejects and execute rethrows.
AgentFails(r) ==
    /\ pc[r] = "agent"
    /\ executed' = [executed EXCEPT ![r] = @ + 1]
    /\ pc' = [pc EXCEPT ![r] = "failed"]
    /\ error' = [error EXCEPT ![r] = "AgentFailure"]
    /\ UNCHANGED <<inst, pr, messages, next, supervisorCalls, decisions, loaded,
                   checkpoints, kind, userContext, returned, calls>>
    /\ UNCHANGED <<webhookVars, promptVars, configVars>>

Next ==
    \/ \E r \in Runs, i \in Insts, p \in PRs, context \in Contexts :
            Execute(r, i, p, context)
    \/ \E r \in Runs, args \in OracleResponses : SupervisorNode(r, args)
    \/ \E r \in Runs : SupervisorFails(r)
    \/ \E r \in Runs : AgentNode(r)
    \/ \E r \in Runs : AgentFails(r)

Spec == Init /\ [][Next]_vars

SpecAssistant == InitAssistant /\ [][Next]_vars

\* A node that has been invoked returns or fails: the oracle call, the
\* reasoning session and the tool calls each end in finite time.
NodeStep(r) ==
    \/ \E args \in OracleResponses : SupervisorNode(r, args)
    \/ SupervisorFails(r)
    \/ AgentNode(r)
    \/ AgentFails(r)

FairSpecAssistantOnce ==
    /\ InitAssistantOnce /\ [][Next]_vars
    /\ \A r \in Runs : WF_vars(NodeStep(r))

----------------------------------------------------------------------------
(* Prompt files edited and the loader's cache cleared between runs *)

\* A prompt file of a workflow is replaced by another edition (a deployment
\* or an edit on disk).
EditPromptFile(workflowName, file, edition) ==
    /\ promptFiles[workflowName][file] # edition
    /\ promptFiles' = [promptFiles EXCEPT ![workflowName][file] = edition]
    /\ UNCHANGED <<promptsCache, definition, reads, cachedObject, loadResult>>
    /\ UNCHANGED <<workflowVars, webhookVars, configVars>>

\* PromptLoader.clearCache(), called directly or by the watcher of
\* enableHotReload after a .yml or .md file changed.
ClearCache ==
    /\ promptsCache' = [k \in PromptCacheKeys |-> <<>>]
    /\ cachedObject' = [k \in PromptCacheKeys |-> 0]
    /\ UNCHANGED <<promptFiles, definition, reads, loadResult>>
    /\ UNCHANGED <<workflowVars, webhookVars, configVars>>

\* execute() calls on the instances while the prompt files and the cache
\* change; the nodes of a run do not use the loader.
NextPrompts ==
    \/ \E r \in Runs, i \in Insts, p \in PRs, context \in Contexts :
            Execute(r, i, p, context)
    \/ \E n \in WorkflowNames, file \in {"yml", "md"}, e \in Editions :
            EditPromptFile(n, file, e)
    \/ ClearCache

SpecPrompts == Init /\ [][NextPrompts]_vars

----------------------------------------------------------------------------
(* The loader called while prompt files come and go *)

\* The loads that go to the file system, at most, beside those of execute().
MaxReads == 2

\* A prompt file of a workflow is removed or made unreadable.
RemovePromptFile(workflowName, file) ==
    /\ promptFiles[workflowName][file] # Unreadable
    /\ promptFiles' = [promptFiles EXCEPT ![workflowName][file] = Unreadable]
    /\ UNCHANGED <<promptsCache, definition, reads, cachedObject, loadResult>>
    /\ UNCHANGED <<workflowVars, webhookVars, configVars>>

\* PromptLoader.loadWorkflowPrompts(workflowName), as the constructor of a
\* workflow instance calls it.
LoadWorkflowPrompts(workflowName) ==
    /\ promptsCache[WorkflowKey(workflowName)] = <<>> => reads < MaxReads
    /\ promptsCache' = CacheAfterLoadWorkflowPrompts(workflowName)
    /\ Loaded(WorkflowKey(workflowName), loadWorkflowPromptsThrows(workflowName),
              loadWorkflowPrompts(workflowName))
    /\ UNCHANGED <<promptFiles, definition>>
    /\ UNCHANGED <<workflowVars, webhookVars, configVars>>

\* PromptLoader.loadAgentPrompts(workflowName), as getAgentConfigs calls it.
LoadAgentPrompts(workflowName) ==
    /\ promptsCache[AgentsKey(workflowName)] = <<>> => reads < MaxReads
    /\ promptsCache' = CacheAfterLoadAgentPrompts(workflowName)
    /\ Loaded(AgentsKey(workflowName), loadAgentPromptsThrows(workflowName),
              loadAgentPrompts(workflowName))
    /\ UNCHANGED <<promptFiles, definition>>
    /\ UNCHANGED <<workflowVars, webhookVars, configVars>>

NextLoader ==
    \/ \E n \in WorkflowNames : LoadWorkflowPrompts(n)
    \/ \E n \in WorkflowNames : LoadAgentPrompts(n)
    \/ \E n \in WorkflowNames, file \in {"yml", "md"}, e \in Editions :
            EditPromptFile(n, file, e)
    \/ \E n \in WorkflowNames, file \in {"yml", "md"} : RemovePromptFile(n, file)
    \/ ClearCache
    \/ \E r \in Runs, i \in Insts, p \in PRs, context \in Contexts :
            Execute(r, i, p, context)

\* One execute() call at most, beside the direct calls of the loader.
InitLoader == InitWorkflow("review", 1)

SpecLoader == InitLoader /\ [][NextLoader]_vars

----------------------------------------------------------------------------
(* ConfigurationManager.getInstance while the environment changes *)

\* A variable of process.env is set, changed or deleted.
SetEnv(name, value) ==
    /\ env[name] # value
    /\ env' = [env EXCEPT ![name] = value]
    /\ UNCHANGED <<configInstance, configResult>>
    /\ UNCHANGED <<workflowVars, webhookVars, promptVars>>

\* ConfigurationManager.getInstance(): without an instance the constructor
\* runs loadAndValidateConfiguration; when that throws, the assignment to
\* ConfigurationManager.instance does not happen.
GetInstance ==
    /\ IF configInstance # <<>>
       THEN /\ configResult' = "returned"
            /\ UNCHANGED configInstance
       ELSE LET loaded_ == loadAndValidateConfiguration(env)
            IN IF loaded_.threw
               THEN /\ configResult' = "threw"
                    /\ UNCHANGED configInstance
               ELSE /\ configResult' = "returned"
                    /\ configInstance' = <<loaded_.config>>
    /\ UNCHANGED env
    /\ UNCHANGED <<workflowVars, webhookVars, promptVars>>

NextConfig ==
    \/ \E e \in Envs : \E name \in DOMAIN e : SetEnv(name, e[name])
    \/ GetInstance

\* The process at its start, in some environment, before anything has
\* asked for the configuration.
InitProcess ==
    /\ InitRuns("review", 0)
    /\ traffic = "mixed"
    /\ env \in Envs
    /\ configInstance = <<>>
    /\ configResult = "none"

SpecConfig == InitProcess /\ [][NextConfig]_vars

----------------------------------------------------------------------------
(* Webhook layer: WebhookController, WebhookService, GitHubServiceFactory *)

\* Every pull_request action is handled as a review.
handlePullRequestEventAlwaysReview(action) == "handlePRReview"

\* handlePullRequestEvent: the switch on action.
handlePullRequestEvent(action) ==
    CASE action \in {"opened", "ready_for_review", "reopened"} -> "handlePRReview"
      [] action = "synchronize" -> "handlePRUpdate"
      [] action = "closed" -> "handlePRClosed"
      [] OTHER -> "none"

\* GitHubService.withApp: process.env.GITHUB_APP_NAME || 'ai-code-reviewer'
\* (the environment does not change while webhooks are served).
botUsername == Characters(OrElse(env.GITHUB_APP_NAME, "ai-code-reviewer"))

\* A test that knows the bot by its configured name only.
isCommentFromBotByNameOnly(commentUser) ==
    botUsername # <<>> /\ commentUser = botUsername

\* GitHubService.isCommentFromBot(commentUser)
isCommentFromBot(commentUser) ==
    \/ botUsername # <<>> /\ commentUser = botUsername
    \/ Includes(commentUser, Characters("[bot]"))
    \/ Includes(commentUser, Characters("bot"))
    \/ Includes(ToLowerCaseAll(commentUser), Characters("github-actions"))

\* \w of a regular expression.
WordCharacter(c) ==
    \/ \E i \in 1..Len(LowerCase) : c = LowerCase[i] \/ c = UpperCase[i]
    \/ c \in {"0", "1", "2", "3", "4", "5", "6", "7", "8", "9", "_"}

\* body has @pattern at position i, letters compared without case (the
\* names of the model have no character that is special in a regular
\* expression).
MentionAt(body, i, pattern) ==
    /\ i + Len(pattern) <= Len(body)
    /\ body[i] = "@"
    /\ ToLowerCaseAll(SubSeq(body, i + 1, i + Len(pattern)))
          = ToLowerCaseAll(pattern)

\* botUsername.replace('[bot]', '')
WithoutBotSuffix(name) ==
    LET at == { i \in 1..(Len(name) - 4) :
                  SubSeq(name, i, i + 4) = Characters("[bot]") }
    IN IF at = {} THEN name
       ELSE LET i == CHOOSE j \in at : \A k \in at : j <= k
            IN SubSeq(name, 1, i - 1) \o SubSeq(name, i + 5, Len(name))

\* GitHubService.isBotMentioned(body): new RegExp(`@${pattern}\\b`, 'i') for
\* the bot's name, the name without [bot], 'ai-reviewer', 'ai-code-reviewer'.
isBotMentioned(body) ==
    \E pattern \in { n \in {botUsername, WithoutBotSuffix(botUsername),
                             Characters("ai-reviewer"),
                             Characters("ai-code-reviewer")} : n # <<>> } :
        \E i \in 1..Len(body) :
            /\ MentionAt(body, i, pattern)
            /\ \/ i + Len(pattern) = Len(body)
               \/ ~WordCharacter(body[i + Len(pattern) + 1])

\* String.prototype.trim (the bodies of the model are one line, so the
\* folding of blank lines finds nothing to fold).
Trim(text) ==
    LET inked == { i \in 1..Len(text) : text[i] # " " }
    IN IF inked = {} THEN <<>>
       ELSE SubSeq(text, CHOOSE i \in inked : \A k \in inked : i <= k,
                         CHOOSE i \in inked : \A k \in inked : i >= k)

\* body.match(new RegExp(`@${pattern}\\s*([\\s\\S]*)`, 'i')): the text after
\* the first mention of pattern, trimmed; empty without a mention.
TextAfterMention(body, pattern) ==
    LET at == { i \in 1..Len(body) : MentionAt(body, i, pattern) }
    IN IF at = {} THEN <<>>
       ELSE LET i == CHOOSE j \in at : \A k \in at : j <= k
            IN Trim(SubSeq(body, i + Len(pattern) + 1, Len(body)))

\* GitHubService.extractCommand(body): the text after the first pattern
\* that is followed by some; null is the empty sequence.
extractCommand(body) ==
    LET botPatterns == SelectSeq(<<botUsername, Characters("ai-reviewer"),
                                   Characters("ai-code-reviewer")>>,
                                 LAMBDA n : n # <<>>)
        found == { k \in 1..Len(botPatterns) :
                     TextAfterMention(body, botPatterns[k]) # <<>> }
    IN IF found = {} THEN <<>>
       ELSE TextAfterMention(body,
                botPatterns[CHOOSE k \in found : \A j \in found : k <= j])

\* { type: 'mention', userQuery: command, user } of handleBotCommand.
MentionContextOf(command, user) ==
    [type |-> "mention", userQuery |-> command, user |-> user]

\* handleIssueCommentEvent and handleReviewCommentEvent: what the handler
\* of a comment does: nothing, the greeting of handleBotMention, or
\* handleBotCommand with the text of the mention.
handleCommentEvent(p) ==
    LET comment == BodyOf(p)
    IN IF p.event = "issue_comment" /\ ~comment.onPullRequest THEN "none"
       ELSE IF isCommentFromBot(comment.user) THEN "none"
       ELSE IF ~isBotMentioned(comment.body) THEN "none"
       ELSE IF extractCommand(comment.body) = <<>> THEN "greeting"
       ELSE "handleBotCommand"

\* The handler whose comment a request posts.
HandlerOf(p) ==
    IF p.event = "pull_request" THEN handlePullRequestEvent(p.action)
    ELSE IF p.event \in {"issue_comment", "pull_request_review_comment"}
    THEN "handleBotMention"
    ELSE "none"

\* processWebhook up to the first call that waits for the network: where the
\* handler of the event is suspended, or "responded" when it has returned
\* (ping, installation events, unhandled actions, a closed pull request that
\* was not merged).
FirstSuspension(p) ==
    IF p.event \in {"issue_comment", "pull_request_review_comment"}
    THEN CASE handleCommentEvent(p) = "greeting" -> "createPRComment"
           [] handleCommentEvent(p) = "handleBotCommand" -> "execute"
           [] OTHER -> "responded"
    ELSE IF p.event # "pull_request" THEN "responded"
    ELSE CASE handlePullRequestEvent(p.action) = "handlePRReview" -> "getPullRequest"
           [] handlePullRequestEvent(p.action) = "handlePRUpdate" -> "getPullRequestFiles"
           [] handlePullRequestEvent(p.action) = "handlePRClosed" ->
                  IF BodyOf(p).merged THEN "createPRComment" ELSE "responded"
           [] OTHER -> "responded"

\* ensureInitialized: services for this installation are already current.
AlreadyInitialized(installationId) ==
    /\ isInitialized
    /\ currentInstallationId = installationId
    /\ currentServices # NoServices

\* A request arrives: validateAndInitialize (installation id, then
\* ensureInitialized, then verifySignature), next(), handleWebhook, and
\* processWebhook up to the handler's first call that waits for the network.
\* None of the calls awaited on the way does any input or output
\* (createServiceInstances reads the key with readFileSync and constructs
\* objects), so all of it runs in one turn of the event loop, before the
\* handler of any other request runs.
\* A handler that never clears.
handleInstallationEventsKeeping(action) == FALSE

\* handleInstallationEvents(event, body): whether it calls clearCache and
\* resets currentServices, currentInstallationId and isInitialized.
handleInstallationEvents(action) == action \in {"deleted", "suspend"}

\* A cache that never holds a bundle.
CachedInstancesNone(cacheKey) == NoServices

\* this.serviceInstances.get(cacheKey) of getServiceInstances.
CachedInstances(cacheKey) == serviceInstances[cacheKey]

Receive(q, p) ==
    /\ wpc[q] = "waiting"
    /\ q <= Deliveries
    /\ \A o \in Reqs : o < q => wpc[o] # "waiting"
    /\ payload' = [payload EXCEPT ![q] = p]
    /\ LET installationId == BodyOf(p).installation
       IN IF installationId = 0
          THEN \* the controller's own error where the event requires an
               \* installation id, otherwise the error ensureInitialized
               \* throws, which the controller's catch sends
               /\ status' = [status EXCEPT ![q] =
                     IF requiresInstallationId(p)
                     THEN sendErrorResponse(InstallationIdRequiredForEvent, 400)
                     ELSE sendErrorResponse(InstallationIdRequiredInPayload, 0)]
               /\ wpc' = [wpc EXCEPT ![q] = "responded"]
               /\ UNCHANGED <<services, epoch, currentServices,
                              currentInstallationId, isInitialized,
                              serviceInstances, created, clears>>
          ELSE LET cacheKey == generateCacheKey(installationId)
                   cached == CachedInstances(cacheKey)
                   reuse == AlreadyInitialized(installationId)
                   create == ~reuse /\ cached = NoServices
                   instances == IF reuse THEN currentServices
                                ELSE IF cached # NoServices THEN cached
                                ELSE Bundle(installationId, created + 1)
                   isValidSignature == verifySignature(p)
                   clears_ == /\ isValidSignature
                              /\ p.event \in {"installation",
                                              "installation_repositories"}
                              /\ handleInstallationEvents(BodyOf(p).action)
                   position == IF isValidSignature THEN FirstSuspension(p)
                               ELSE "responded"
               IN /\ created' = IF create THEN created + 1 ELSE created
                  /\ epoch' = [epoch EXCEPT ![q] = clears]
                  /\ clears' = IF clears_ THEN clears + 1 ELSE clears
                  /\ services' = [services EXCEPT ![q] =
                        IF isValidSignature THEN instances ELSE NoServices]
                  /\ IF clears_
                     THEN /\ serviceInstances' = [k \in CacheKeys |-> NoServices]
                          /\ isInitialized' = FALSE
                          /\ currentServices' = NoServices
                          /\ currentInstallationId' = 0
                     ELSE /\ serviceInstances' =
                               IF create
                               THEN [serviceInstances EXCEPT ![cacheKey] = instances]
                               ELSE serviceInstances
                          /\ isInitialized' = TRUE
                          /\ currentServices' = instances
                          /\ currentInstallationId' = installationId
                  /\ wpc' = [wpc EXCEPT ![q] = position]
                  /\ status' = [status EXCEPT ![q] =
                        IF ~isValidSignature
                        THEN sendErrorResponse(InvalidWebhookSignature, 401)
                        ELSE IF position = "responded" THEN 200 ELSE 0]
    /\ started' = [started EXCEPT ![q] =
          IF /\ BodyOf(p).installation # 0
             /\ verifySignature(p)
             /\ p.event \in {"issue_comment", "pull_request_review_comment"}
             /\ handleCommentEvent(p) = "handleBotCommand"
          THEN Append(@, Call("assistantService",
                              Given(MentionContextOf(
                                  extractCommand(BodyOf(p).body),
                                  BodyOf(p).user))))
          ELSE @]
    /\ UNCHANGED <<comments, fetched, traffic>>
    /\ UNCHANGED <<workflowVars, promptVars, configVars>>

\* handlePRReview after getPullRequest: a draft is skipped, otherwise
\* reviewService.execute is called; an error is logged and the handler
\* returns.  The pull request is as the event described it.
GetPullRequest(q, ok) ==
    /\ wpc[q] = "getPullRequest"
    /\ fetched' = [fetched EXCEPT ![q] =
          IF ok THEN <<[draft |-> BodyOf(payload[q]).draft]>> ELSE @]
    /\ IF ok /\ ~BodyOf(payload[q]).draft
       THEN /\ started' = [started EXCEPT ![q] =
                  Append(@, Call("reviewService", NoContext))]
            /\ wpc' = [wpc EXCEPT ![q] = "execute"]
            /\ UNCHANGED status
       ELSE /\ wpc' = [wpc EXCEPT ![q] = "responded"]
            /\ status' = [status EXCEPT ![q] = 200]
            /\ UNCHANGED started
    /\ UNCHANGED <<payload, services, epoch, comments, singletonVars>>
    /\ UNCHANGED <<workflowVars, promptVars, configVars>>

\* handlePRUpdate after getPullRequestFiles: assistantService.execute is
\* called with { type: 'push', changedFiles }; an error is logged and the
\* handler returns.
GetPullRequestFiles(q, ok, files) ==
    /\ wpc[q] = "getPullRequestFiles"
    /\ IF ok
       THEN /\ LET changedFiles == Filenames(files)
               IN started' = [started EXCEPT ![q] =
                     Append(@, Call("assistantService",
                                    Given(PushContextOf(changedFiles))))]
            /\ fetched' = [fetched EXCEPT ![q] = <<files>>]
            /\ wpc' = [wpc EXCEPT ![q] = "execute"]
            /\ UNCHANGED status
       ELSE /\ wpc' = [wpc EXCEPT ![q] = "responded"]
            /\ status' = [status EXCEPT ![q] = 200]
            /\ UNCHANGED <<started, fetched>>
    /\ UNCHANGED <<payload, services, epoch, comments, singletonVars>>
    /\ UNCHANGED <<workflowVars, promptVars, configVars>>

\* execute returned lastMessage: if (lastMessage.content) the comment is
\* created next, otherwise the handler returns.
ExecuteReturns(q, hasContent) ==
    /\ wpc[q] = "execute"
    /\ IF hasContent
       THEN /\ wpc' = [wpc EXCEPT ![q] = "createPRComment"]
            /\ UNCHANGED status
       ELSE /\ wpc' = [wpc EXCEPT ![q] = "responded"]
            /\ status' = [status EXCEPT ![q] = 200]
    /\ UNCHANGED <<payload, services, epoch, started, comments, fetched,
                   singletonVars>>
    /\ UNCHANGED <<workflowVars, promptVars, configVars>>

\* execute threw: the handler's catch logs the error and returns.
ExecuteThrows(q) ==
    /\ wpc[q] = "execute"
    /\ wpc' = [wpc EXCEPT ![q] = "responded"]
    /\ status' = [status EXCEPT ![q] = 200]
    /\ UNCHANGED <<payload, services, epoch, started, comments, fetched,
                   singletonVars>>
    /\ UNCHANGED <<workflowVars, promptVars, configVars>>

\* createPRComment with the bundle's GitHub client.  handlePRReview,
\* handlePRUpdate and handleBotMention catch a failure; handlePRClosed does not, and handleWebhook
\* answers 500.
CreatePRComment(q, ok) ==
    /\ wpc[q] = "createPRComment"
    /\ comments' = [comments EXCEPT ![q] =
          IF ok THEN Append(@, [by |-> services[q],
                                handler |-> HandlerOf(payload[q])])
          ELSE @]
    /\ wpc' = [wpc EXCEPT ![q] = "responded"]
    /\ status' = [status EXCEPT ![q] =
          IF ~ok /\ HandlerOf(payload[q]) = "handlePRClosed"
          THEN sendErrorResponse(FailedToCreatePRComment, 0) ELSE 200]
    /\ UNCHANGED <<payload, services, epoch, started, fetched, singletonVars>>
    /\ UNCHANGED <<workflowVars, promptVars, configVars>>

NextWebhook ==
    \/ \E q \in Reqs, p \in Payloads : Receive(q, p)
    \/ \E q \in Reqs, ok \in BOOLEAN : GetPullRequest(q, ok)
    \/ \E q \in Reqs, ok \in BOOLEAN, files \in FileLists :
            GetPullRequestFiles(q, ok, files)
    \/ \E q \in Reqs, hasContent \in BOOLEAN : ExecuteReturns(q, hasContent)
    \/ \E q \in Reqs : ExecuteThrows(q)
    \/ \E q \in Reqs, ok \in BOOLEAN : CreatePRComment(q, ok)

\* The webhook service; no workflow is executed by hand.
InitWebhookService == InitWorkflow("review", 0)

SpecWebhook == InitWebhookService /\ [][NextWebhook]_vars

\* The webhook service receiving three webhooks of the installations.
InitInstallations ==
    InitRuns("review", 0) /\ ConfigurationLoaded /\ traffic = "installations"

SpecInstallations == InitInstallations /\ [][NextWebhook]_vars

\* The webhook service receiving two webhooks of one installation, comments
\* among them.
InitComments ==
    InitRuns("review", 0) /\ ConfigurationLoaded /\ traffic = "comments"

SpecComments == InitComments /\ [][NextWebhook]_vars

----------------------------------------------------------------------------
(* Properties *)

IsPrefix(s, t) == Len(s) <= Len(t) /\ SubSeq(t, 1, Len(s)) = s

Started(r) == pc[r] # "idle"

Running(r) == pc[r] \in {"supervisor", "agent"}

\* The oracle response is exactly one destination of the legal set.
Legal(args) == args.defined /\ args.value \in Range(Options)

ChoosesAgent(args) == args.defined /\ args.value \in Range(Members)

NodeFailed(r) == error[r] \in {"OracleUnavailable", "AgentFailure"}

\* C1: in every step of every run (the start of execute, a supervisor
\* execution, an agent execution) the run's messages before the step are a
\* prefix of its messages after the step: messages never shrinks, is never
\* reordered, and no message already appended is changed.
C1_MessagesAppendOnly ==
    [][\A r \in Runs : IsPrefix(messages[r], messages'[r])]_vars

\* A run that started from a checkpoint with messages and appended its initial
\* message and two agent messages to them.
C1_Witness ==
    \E r \in Runs : /\ loaded[r] # <<>>
                    /\ Len(messages[r]) >= Len(loaded[r]) + 3

\* C2: the number of supervisor invocations of a run never exceeds
\* recursionLimit; a run that reaches the limit ends with the limit error
\* (unless the node that reached it failed itself), and a run returns
\* successfully only below the limit and only after the supervisor routed to
\* no agent: never with a truncated result.
C2_SupervisorCallsBounded ==
    \A r \in Runs :
        /\ supervisorCalls[r] <= EffectiveRecursionLimit
        /\ executed[r] <= EffectiveRecursionLimit
        /\ executed[r] >= EffectiveRecursionLimit =>
              /\ pc[r] = "failed"
              /\ ~NodeFailed(r) /\ error[r] # "RoutingViolation" =>
                    error[r] = "IterationLimitExceeded"
        /\ pc[r] = "done" =>
              /\ executed[r] < EffectiveRecursionLimit
              /\ ~HasNode(next[r])
              /\ error[r] = "none"

\* A run whose oracle kept choosing agents until the limit stopped it.
C2_Witness ==
    \E r \in Runs : /\ pc[r] = "failed"
                    /\ error[r] = "IterationLimitExceeded"
                    /\ executed[r] = EffectiveRecursionLimit
                    /\ \A k \in 1..Len(decisions[r]) : ChoosesAgent(decisions[r][k])

\* C3: whenever an oracle response is anything other than exactly one
\* destination of {END} \cup members, the run fails with RoutingViolation:
\* it does not end successfully and does not go on to an agent or to another
\* supervisor execution.
C3_IllegalResponseFailsRun ==
    \A r \in Runs :
        (\E k \in 1..Len(decisions[r]) : ~Legal(decisions[r][k])) =>
            /\ pc[r] = "failed"
            /\ error[r] = "RoutingViolation"

\* C4: in every reachable state the next field of every run is END or a
\* declared member name, whatever the oracle returned.
C4_NextIsLegalDestination ==
    \A r \in Runs : next[r] \in Range(Options)

\* The initial human message of a run.
InitialOf(r) ==
    HumanMessage(createInitialMessage(pr[r].owner, pr[r].repo, pr[r].number),
                 <<>>, r)

\* No earlier run used the same instance for the same pull request.
FirstOnThread(r) ==
    \A q \in Runs : q < r => ~(inst[q] = inst[r] /\ pr[q] = pr[r])

\* C5: two runs that execute concurrently share no run state: the messages
\* of each contain only its own initial message and its own agents' outputs,
\* also when both were started for the same pull request on the same
\* workflow instance.
C5_ConcurrentRunsShareNothing ==
    \A r, q \in Runs :
        r # q /\ Running(r) /\ Running(q) =>
            \A k \in 1..Len(messages[r]) : messages[r][k].run = r

\* C6: two runs for different pull requests (so with different thread ids)
\* never observe each other's state: no message of one is in the other's
\* messages, in what the other read from its checkpoint, or in the checkpoint
\* stored under the other's thread id.
C6_DifferentThreadsIsolated ==
    \A r, q \in Runs :
        r # q /\ Started(r) /\ Started(q) /\ pr[r] # pr[q] =>
            /\ \A k \in 1..Len(messages[r]) : messages[r][k].run # q
            /\ \A k \in 1..Len(loaded[r]) : loaded[r][k].run # q
            /\ LET saved == LoadCheckpoint(inst[r], ThreadOf(pr[r])).messages
               IN \A k \in 1..Len(saved) : saved[k].run # q

\* Two runs on one instance, for different pull requests, both in flight and
\* both with an agent message appended.
C6_Witness ==
    \E r, q \in Runs :
        /\ r # q /\ inst[r] = inst[q] /\ pr[r] # pr[q]
        /\ Running(r) /\ Running(q)
        /\ Len(messages[r]) >= 2 /\ Len(messages[q]) >= 2

\* C7 as stated: a run whose oracle returns END on its first call completes
\* successfully after that one supervisor execution, and its final messages
\* are exactly its one initial human message.
C7_TerminalFirstOnlyInitialMessage ==
    \A r \in Runs :
        decisions[r] = <<Defined(END)>> =>
            /\ pc[r] = "done" /\ executed[r] = 1
            /\ messages[r] = <<InitialOf(r)>>

\* C7 as amended: such a run completes successfully after that one
\* supervisor execution, no agent executes, and its final messages are the
\* messages checkpointed for its thread when it started followed by exactly
\* its one initial human message; they are exactly that one message when no
\* earlier run used the instance for the pull request.
C7_TerminalFirstAddsOnlyInitialMessage ==
    \A r \in Runs :
        decisions[r] = <<Defined(END)>> =>
            /\ pc[r] = "done" /\ executed[r] = 1 /\ next[r] = END
            /\ messages[r] = loaded[r] \o <<InitialOf(r)>>
            /\ FirstOnThread(r) => messages[r] = <<InitialOf(r)>>

\* A second run on a thread that already has messages, ended by END at once.
C7_Witness ==
    \E r \in Runs : /\ decisions[r] = <<Defined(END)>>
                    /\ pc[r] = "done"
                    /\ ~FirstOnThread(r)
                    /\ Len(messages[r]) > 1

\* The responses are k agent names followed by END.
AgentsThenEnd(d) ==
    /\ Len(d) >= 1
    /\ d[Len(d)] = Defined(END)
    /\ \A k \in 1..(Len(d) - 1) : ChoosesAgent(d[k])

\* The run is done with next = END, and after the first base messages its
\* messages are its initial message and one message per chosen agent, in the
\* order chosen, each the output of that agent's session on the messages
\* before it.
EndedWithOneMessagePerAgent(r, base) ==
    LET d == decisions[r]
        k == Len(d) - 1
    IN /\ pc[r] = "done" /\ next[r] = END
       /\ Len(messages[r]) = base + 1 + k
       /\ messages[r][base + 1] = InitialOf(r)
       /\ \A j \in 1..k :
            messages[r][base + 1 + j] =
                HumanMessage(
                    ReasoningSession(d[j].value,
                        [messages |-> SubSeq(messages[r], 1, base + j),
                         next |-> d[j].value]),
                    formatAgentName(d[j].value), r)

ScenarioA == <<Defined(Members[1]), Defined(Members[2]), Defined(END)>>

AllAgents(d) == Len(d) >= 1 /\ \A k \in 1..Len(d) : ChoosesAgent(d[k])

Last(s) == s[Len(s)]

SameInputs(r, q) ==
    /\ r # q /\ pc[r] = "done" /\ pc[q] = "done"
    /\ Plain(InitialOf(r)) = Plain(InitialOf(q))
    /\ decisions[r] = decisions[q]

\* C10 as stated: two runs with an identical initial message and the same
\* sequence of oracle responses (agent outputs being a function of the
\* agent's input state) end with identical final message content.
C10_SameInputsSameFinalMessage ==
    \A r, q \in Runs :
        SameInputs(r, q) =>
            Plain(Last(messages[r])).content = Plain(Last(messages[q])).content

\* C10 as amended: two such runs end with identical final messages (every
\* message, the last one included) when they run on different workflow
\* instances and neither instance was used for the pull request before.
C10_SameInputsFreshInstancesSameMessages ==
    \A r, q \in Runs :
        SameInputs(r, q) /\ inst[r] # inst[q]
          /\ FirstOnThread(r) /\ FirstOnThread(q) =>
            PlainSeq(messages[r]) = PlainSeq(messages[q])

\* Two completed runs on different instances for the same pull request, with
\* the same responses, among them an agent.
C10_Witness ==
    \E r, q \in Runs :
        /\ SameInputs(r, q) /\ inst[r] # inst[q]
        /\ Len(decisions[r]) >= 2
        /\ Len(messages[r]) >= 2

C12_TransitionTable ==
    [][\A r \in Runs :
          /\ pc[r] = "idle" /\ pc'[r] # "idle" => pc'[r] = "supervisor"
          /\ supervisorCalls'[r] # supervisorCalls[r] =>
                /\ pc[r] = "supervisor"
                /\ supervisorCalls'[r] = supervisorCalls[r] + 1
                /\ executed'[r] = executed[r] + 1
                /\ \/ pc'[r] = "agent" /\ next'[r] \in Range(Members)
                   \/ pc'[r] = "done" /\ next'[r] = END
                   \/ pc'[r] = "failed"
          /\ executed'[r] # executed[r] /\ supervisorCalls'[r] = supervisorCalls[r] =>
                /\ pc[r] = "agent"
                /\ executed'[r] = executed[r] + 1
                /\ pc'[r] \in {"supervisor", "failed"}
          /\ pc'[r] # pc[r] => executed'[r] # executed[r] \/ pc[r] = "idle"]_vars

\* The agent node executions of a run.
AgentExecutions(r) == executed[r] - supervisorCalls[r]

\* C13 as stated, for the runs in which every oracle response was a legal
\* destination: when a run terminates successfully, the message execute
\* returns is the last element of the final messages, and that message was
\* produced by a node of that run (it carries the node's name).
C13_ReturnedMessageProducedByNode ==
    \A r \in Runs :
        pc[r] = "done" /\ (\A k \in 1..Len(decisions[r]) : Legal(decisions[r][k])) =>
            /\ returned[r] = <<Last(messages[r])>>
            /\ returned[r][1].run = r
            /\ returned[r][1].name # <<>>

\* C13 as amended: execute returns a message exactly when the run terminates
\* successfully; it is the last element of the final messages; when an agent
\* node executed in the run it is the message of the last-executed agent
\* node (that agent's output on the messages before it, under its formatted
\* name), and when no agent node executed it is the run's own initial human
\* message.
C13_ReturnedLastAgentOrInitialMessage ==
    \A r \in Runs :
        /\ pc[r] # "done" => returned[r] = <<>>
        /\ pc[r] = "done" =>
              /\ returned[r] = <<Last(messages[r])>>
              /\ LET m == returned[r][1]
                     front == SubSeq(messages[r], 1, Len(messages[r]) - 1)
                 IN /\ m.run = r
                    /\ IF AgentExecutions(r) = 0
                       THEN m = InitialOf(r)
                       ELSE \E a \in Range(Members) :
                              m = HumanMessage(
                                    ReasoningSession(a,
                                        [messages |-> front, next |-> a]),
                                    formatAgentName(a), r)

\* A run that returned the message of its second agent node.
C13_Witness ==
    \E r \in Runs :
        /\ pc[r] = "done" /\ AgentExecutions(r) = 2
        /\ returned[r] = <<Last(messages[r])>>
        /\ Len(messages[r]) >= 3
        /\ returned[r][1].name = formatAgentName(Members[2])

\* C14: every agent node execution that returns appends exactly one message
\* to messages: it carries the agent's formatted name (for security_agent
\* the name Security_Agent) and the final output of the agent's session on
\* the state before it; next and userContext are as before, and nothing else
\* of the session (tool calls, tool results) is appended.
C14_AgentAppendsOneNamedMessage ==
    [][\A r \in Runs :
          pc[r] = "agent" /\ executed'[r] # executed[r] /\ error'[r] # "AgentFailure" =>
              /\ messages'[r] =
                    Append(messages[r],
                           [content |-> ReasoningSession(next[r],
                                            [messages |-> messages[r]]),
                            name |-> formatAgentName(next[r]),
                            run |-> r])
              /\ next[r] = "security_agent" =>
                    Last(messages'[r]).name =
                        <<"S", "e", "c", "u", "r", "i", "t", "y", "_",
                          "A", "g", "e", "n", "t">>
              /\ next[r] = "summarizer" =>
                    Last(messages'[r]).name =
                        <<"S", "u", "m", "m", "a", "r", "i", "z", "e", "r">>
              /\ next'[r] = next[r]
              /\ userContext'[r] = userContext[r]]_vars

\* A run started with a push context in which the summarizer (with tools)
\* and then security_agent executed.
C14_Witness ==
    \E r \in Runs :
        /\ userContext[r] = PushContext
        /\ AgentExecutions(r) = 2 /\ Len(messages[r]) = Len(loaded[r]) + 3
        /\ Last(messages[r]).name = formatAgentName("security_agent")
        /\ messages[r][Len(messages[r]) - 1].name = formatAgentName("summarizer")

Ended(r) == pc[r] \in {"done", "failed"}

\* C16: every run that was started ends, given that every node that is
\* invoked returns or fails; a run that has ended stays ended, and it ended
\* either successfully, after a supervisor execution that scheduled no agent,
\* with a returned message and no error, or with an error (the recursion
\* limit, a failed node, a failed edge) and no returned message.
C16_EveryRunTerminates ==
    /\ \A r \in Runs : Started(r) ~> Ended(r)
    /\ [][\A r \in Runs : Ended(r) => pc'[r] = pc[r]]_vars
    /\ [](\A r \in Runs :
            /\ pc[r] = "done" =>
                  /\ error[r] = "none" /\ returned[r] # <<>>
                  /\ ~HasNode(next[r])
                  /\ executed[r] < EffectiveRecursionLimit
            /\ pc[r] = "failed" =>
                  /\ returned[r] = <<>>
                  /\ error[r] \in {"IterationLimitExceeded", "OracleUnavailable",
                                   "AgentFailure", "RoutingViolation"}
                  /\ error[r] = "IterationLimitExceeded" =>
                        executed[r] = EffectiveRecursionLimit)

\* A run has ended successfully on END after an agent executed.
C16_Witness ==
    \E r \in Runs :
        /\ pc[r] = "done" /\ next[r] = END /\ AgentExecutions(r) >= 1
        /\ returned[r] = <<Last(messages[r])>>

\* processWebhook was invoked for the request.
Processed(q) == services[q] # NoServices

Suspended(q) == wpc[q] \notin {"waiting", "responded"}

\* C17: every webhook that is processed is processed with a service bundle
\* that createServiceInstances built for the installation id of its own
\* payload, whatever other requests were received before it or while its
\* handler was waiting; the comments it posts are posted with that bundle,
\* and requests of different installations never use the same bundle.
C17_ProcessedWithOwnInstallationBundle ==
    \A q \in Reqs :
        /\ Processed(q) =>
              /\ services[q].installationId = payload[q].installation
              /\ services[q].serial \in 1..created
        /\ \A k \in 1..Len(comments[q]) : comments[q][k].by = services[q]
        /\ \A o \in Reqs :
              Processed(q) /\ Processed(o)
                /\ payload[q].installation # payload[o].installation =>
                  services[q] # services[o]

\* Two requests of different installations whose handlers are both waiting:
\* the service's current bundle is the second one's, the first handler
\* still holds its own.
C17_Witness ==
    \E q, o \in Reqs :
        /\ q < o /\ Suspended(q) /\ Suspended(o)
        /\ payload[q].installation # payload[o].installation
        /\ started[q] # <<>> /\ started[o] # <<>>
        /\ currentServices = services[o]
        /\ services[q].installationId = payload[q].installation

\* C18: processWebhook is invoked for a request only if the request carried
\* a signature header equal to the HMAC-SHA256 of its payload under the
\* configured webhook secret.
C18_ProcessedOnlyIfSigned ==
    \A q \in Reqs :
        Processed(q) =>
            SignatureHeader(payload[q].signature, RawOf(payload[q]))
                = Hmac(WebhookSecret, RawOf(payload[q]))

\* The request as it would be with the sender's signature of its bytes.
Signed(p) == [p EXCEPT !.signature = "signed"]

\* C19: for a request without the x-hub-signature-256 header verifySignature
\* is true, and the request goes the way its correctly signed twin goes:
\* with an installation id it is not answered 401, processWebhook is invoked
\* with the bundle of its installation and the handler of its event runs;
\* without one both are answered 400.
C19_MissingSignatureTreatedAsValid ==
    [][\A q \in Reqs :
          wpc[q] = "waiting" /\ wpc'[q] # "waiting"
            /\ payload'[q].signature = "absent" =>
              LET p == payload'[q]
              IN /\ verifySignature(p)
                 /\ verifySignature(p) = verifySignature(Signed(p))
                 /\ IF p.installation = 0
                    THEN status'[q] = 400 /\ ~Processed(q)'
                    ELSE /\ status'[q] # 401
                         /\ Processed(q)'
                         /\ services'[q].installationId = p.installation
                         /\ wpc'[q] = FirstSuspension(Signed(p))]_vars

\* An unsigned request for an opened pull request was processed, and its
\* review was posted.
C19_Witness ==
    \E q \in Reqs :
        /\ payload[q].signature = "absent" /\ payload[q].action = "opened"
        /\ Processed(q) /\ status[q] = 200
        /\ started[q] = <<Call("reviewService", NoContext)>>
        /\ Len(comments[q]) = 1

\* C20, for correctly signed requests: no workflow run is started and no
\* comment is posted for a pull_request event (opened, reopened,
\* ready_for_review, synchronize) whose pull request is a draft; and for a
\* ready_for_review event whose pull request is no longer a draft the review
\* workflow is started once the pull request has been read.
C20_DraftPullRequestsSkipped ==
    \A q \in Reqs :
        /\ payload[q].event = "pull_request" /\ payload[q].draft
              /\ payload[q].signature = "signed"
              /\ payload[q].action \in {"opened", "reopened", "ready_for_review",
                                        "synchronize"} =>
                  started[q] = <<>> /\ comments[q] = <<>>
        /\ Processed(q) /\ payload[q].event = "pull_request"
              /\ payload[q].action = "ready_for_review" /\ ~payload[q].draft
              /\ wpc[q] \in {"execute", "createPRComment"} =>
                  started[q] = <<Call("reviewService", NoContext)>>

\* The run a request started, if it started one.
ReviewRun == Call("reviewService", NoContext)

PushRun(files) == Call("assistantService", Given(PushContextOf(Filenames(files))))

MergedComments(q) ==
    \A k \in 1..Len(comments[q]) : comments[q][k].handler = "handlePRClosed"

\* C21, as stated, for correctly signed requests whose reads from GitHub
\* succeeded: once a processed pull_request webhook has been answered,
\* opened, ready_for_review and reopened have started one run of the review
\* workflow; synchronize has started one run of the assistant with context
\* type 'push' and the changed files; closed has started no run and posted
\* a comment only if the pull request was merged; every other action has
\* started no run and posted nothing.
C21_ActionSelectsHandler ==
    \A q \in Reqs :
        Processed(q) /\ payload[q].event = "pull_request"
          /\ payload[q].signature = "signed"
          /\ wpc[q] = "responded" =>
            CASE payload[q].action \in {"opened", "ready_for_review", "reopened"} ->
                    fetched[q] # <<>> => started[q] = <<ReviewRun>>
              [] payload[q].action = "synchronize" ->
                    fetched[q] # <<>> =>
                        /\ Len(started[q]) = 1
                        /\ started[q][1].service = "assistantService"
                        /\ started[q][1].context.value.type = "push"
                        /\ started[q] = <<PushRun(fetched[q][1])>>
              [] payload[q].action = "closed" ->
                    /\ started[q] = <<>>
                    /\ comments[q] # <<>> => payload[q].merged
              [] OTHER -> started[q] = <<>> /\ comments[q] = <<>>

\* What a processed pull_request webhook has started and posted so far.
C21_Handled(q) ==
    CASE payload[q].action \in {"opened", "ready_for_review", "reopened"} ->
            /\ started[q] =
                  IF fetched[q] # <<>> /\ ~fetched[q][1].draft
                  THEN <<ReviewRun>> ELSE <<>>
            /\ started[q] = <<>> => comments[q] = <<>>
      [] payload[q].action = "synchronize" ->
            IF fetched[q] = <<>> THEN started[q] = <<>> /\ comments[q] = <<>>
            ELSE /\ Len(started[q]) = 1
                 /\ started[q][1].service = "assistantService"
                 /\ started[q][1].context.value.type = "push"
                 /\ started[q] = <<PushRun(fetched[q][1])>>
      [] payload[q].action = "closed" ->
            /\ started[q] = <<>>
            /\ Len(comments[q]) <= 1 /\ MergedComments(q)
            /\ comments[q] # <<>> => payload[q].merged
      [] OTHER -> started[q] = <<>> /\ comments[q] = <<>>

\* The first thing the handler of a pull_request action does.
C21_FirstCall(p) ==
    CASE p.action \in {"opened", "ready_for_review", "reopened"} -> "getPullRequest"
      [] p.action = "synchronize" -> "getPullRequestFiles"
      [] p.action = "closed" /\ p.merged -> "createPRComment"
      [] OTHER -> "responded"

\* C21, amended: for a processed pull_request webhook the action selects
\* the handler.  opened, ready_for_review and reopened read the pull request
\* and start one run of the review workflow exactly when it could be read
\* and is not a draft; synchronize reads the changed files and starts one run
\* of the assistant with context type 'push' and their names exactly when
\* they could be read; closed starts no run and posts at most one comment,
\* the merged comment, and only when the pull request was merged; every
\* other action starts no run and posts nothing.
C21_ActionSelectsHandlerWhenFetched ==
    [][\A q \in Reqs :
          (Processed(q) /\ payload[q].event = "pull_request")' =>
              /\ wpc[q] = "waiting" => wpc'[q] = C21_FirstCall(payload'[q])
              /\ C21_Handled(q)']_vars

\* A push to a pull request with two changed files was answered after the
\* assistant's reply had been posted, and an opened draft was answered
\* without a run.
C21_Witness ==
    \E q, o \in Reqs :
        /\ payload[q].action = "synchronize" /\ wpc[q] = "responded"
        /\ Len(fetched[q]) = 1 /\ Len(fetched[q][1]) = 2
        /\ started[q] = <<PushRun(fetched[q][1])>> /\ Len(comments[q]) = 1
        /\ payload[o].action = "opened" /\ payload[o].draft
        /\ Processed(o) /\ wpc[o] = "responded"
        /\ fetched[o] # <<>> /\ started[o] = <<>>

SameInstance(r, q) == Started(r) /\ Started(q) /\ inst[r] = inst[q]

\* C22: all runs of one workflow instance use the same workflow definition
\* (members, supervisor texts, per-agent texts and tools), with the
\* supervisor texts the constructor loaded, also when the prompt files were
\* edited or the loader's cache was cleared between the runs.
C22_DefinitionFixedAtConstruction ==
    \A r, q \in Runs :
        SameInstance(r, q) =>
            /\ definition[r][1].config = WorkflowConfig
            /\ definition[r] = definition[q]

Complete(config) ==
    /\ ~Falsy(config.appId) /\ ~Falsy(config.privateKeyPath)
    /\ ~Falsy(config.webhookSecret)

Incomplete(e) ==
    \/ Falsy(e.GITHUB_APP_ID) \/ Falsy(e.GITHUB_PRIVATE_KEY_PATH)
    \/ Falsy(e.GITHUB_WEBHOOK_SECRET)

\* C23: a getInstance() call made while no instance exists and one of
\* GITHUB_APP_ID, GITHUB_PRIVATE_KEY_PATH, GITHUB_WEBHOOK_SECRET is missing
\* (unset or empty) throws and leaves no instance, however many calls
\* failed before, and the first call made with all three present creates
\* the instance from them; whenever an instance exists its configuration has
\* all three non-empty, and it never changes afterwards, whatever happens
\* to the environment.
C23_MisconfigurationFailsFast ==
    [][/\ configResult' # configResult \/ configInstance' # configInstance =>
            IF configInstance # <<>>
            THEN configResult' = "returned"
            ELSE IF Incomplete(env)
            THEN configResult' = "threw" /\ configInstance' = <<>>
            ELSE /\ configResult' = "returned"
                 /\ configInstance' = <<ConfigurationOf(env)>>
       /\ configInstance' # <<>> => Complete(configInstance'[1])
       /\ configInstance # <<>> => configInstance' = configInstance]_vars

\* getInstance() threw because GITHUB_WEBHOOK_SECRET, and nothing else, is
\* set to the empty string, and no instance was retained.
C23_Witness ==
    /\ configResult = "threw" /\ configInstance = <<>>
    /\ MissingVars(env) = <<"GITHUB_WEBHOOK_SECRET">>
    /\ env.GITHUB_WEBHOOK_SECRET = Defined(EmptyName)

\* The supervisor execution of run r in this step, if its update was applied.
SupervisorWrote(r) ==
    /\ Len(decisions'[r]) = Len(decisions[r]) + 1
    /\ error'[r] \notin {"RoutingViolation", "OracleUnavailable"}

\* C24: next is END while a run on a thread without a checkpoint has had no
\* update with a value; a supervisor update that is applied and carries a
\* defined value v sets next to v; one that carries no value leaves next as
\* it was; and no agent node changes next.
C24_NextLatestWriteWins ==
    [][\A r \in Runs :
          /\ (Started(r) /\ loaded[r] = <<>>
                /\ \A k \in 1..Len(decisions[r]) : ~decisions[r][k].defined)'
                => next'[r] = END
          /\ SupervisorWrote(r) =>
                LET args == decisions'[r][Len(decisions'[r])]
                IN next'[r] = IF args.defined THEN args.value ELSE next[r]
          /\ Started(r) /\ decisions'[r] = decisions[r] => next'[r] = next[r]]_vars

\* The supervisor chose the first member and, after that agent had run,
\* answered without a value: next is still the first member, which runs again.
C24_Witness ==
    \E r \in Runs :
        /\ Len(decisions[r]) = 2
        /\ decisions[r][1] = Defined(Members[1]) /\ decisions[r][2] = Undefined
        /\ next[r] = Members[1] /\ pc[r] = "agent"

\* Run r starts in this step, and run q of the same instance for the same
\* thread has run to completion.
StartsAfter(r, q) ==
    /\ q # r /\ pc[q] = "done"
    /\ pc[r] = "idle" /\ pc'[r] # "idle"
    /\ inst'[r] = inst[q] /\ pr'[r] = pr[q]

\* C25, as stated: a run for a thread that the same instance has already
\* run to completion starts with the earlier run's messages followed by its
\* own initial human message, with next at the earlier run's final value and
\* with the auxiliary context at the earlier run's final value.
C25_StartsFromEarlierRunState ==
    [][\A r, q \in Runs :
          StartsAfter(r, q) =>
              /\ Len(messages'[r]) = Len(messages[q]) + 1
              /\ IsPrefix(messages[q], messages'[r])
              /\ next'[r] = next[q]
              /\ userContext'[r] = userContext[q]]_vars

\* C25, amended: such a run starts with the earlier run's messages followed
\* by its own initial human message and with next at the earlier run's
\* final value; the auxiliary context starts at the context the new call
\* passes, and at the earlier run's final value only when the call passes
\* none.
C25_StartsFromEarlierRunStateUnlessContextGiven ==
    [][\A r, q \in Runs :
          StartsAfter(r, q) =>
              /\ Len(messages'[r]) = Len(messages[q]) + 1
              /\ IsPrefix(messages[q], messages'[r])
              /\ loaded'[r] = messages[q]
              /\ next'[r] = next[q]
              /\ \E context \in Contexts :
                    /\ Plain(Last(messages'[r])).content
                          = InitialMessage(pr'[r].owner, pr'[r].repo,
                                           pr'[r].number, context)
                    /\ userContext'[r] = IF context.defined THEN context.value
                                         ELSE userContext[q]]_vars

\* A run started by a push was completed, and a later run for the same pull
\* request on the same instance, started by a mention, began from its
\* messages with the mention as its context.
C25_Witness ==
    \E r, q \in Runs :
        /\ q # r /\ pc[q] = "done" /\ Started(r)
        /\ inst[r] = inst[q] /\ pr[r] = pr[q]
        /\ loaded[r] = messages[q] /\ Len(messages[q]) >= 2
        /\ userContext[q] = PushContext /\ userContext[r] = MentionContext
        /\ next[q] = END

\* C26: the node executions of a run, supervisor and agents together, never
\* exceed the recursion limit given to the graph (the configured limit of
\* the workflow class, 100 when none is configured); the supervisor runs
\* first and after every agent, so its executions are at most half of the
\* node executions rounded up, hence at most about half of the limit.
C26_NodeExecutionsWithinLimit ==
    \A r \in Runs :
        /\ executed[r] <= EffectiveRecursionLimit
        /\ AgentExecutions(r) <= supervisorCalls[r]
        /\ supervisorCalls[r] <= AgentExecutions(r) + 1
        /\ 2 * supervisorCalls[r] <= EffectiveRecursionLimit + 1

\* A run stopped by the limit: as many node executions as the limit allows,
\* half of them (rounded up) the supervisor's.
C26_Witness ==
    \E r \in Runs :
        /\ error[r] = "IterationLimitExceeded"
        /\ executed[r] = EffectiveRecursionLimit
        /\ 2 * supervisorCalls[r] \in
              {EffectiveRecursionLimit, EffectiveRecursionLimit + 1}
        /\ supervisorCalls[r] < EffectiveRecursionLimit

\* C27: a ping webhook whose payload carries no installation id (and no
\* wrong signature) passes validateAndInitialize, is processed, and is
\* answered with status 200.
C27_PingNeedsNoInstallationId ==
    \A q \in Reqs :
        /\ payload[q].event = "ping" /\ payload[q].installation = 0
        /\ payload[q].signature # "forged"
        /\ wpc[q] = "responded"
        => status[q] = 200

\* ---------------------------------------------------------------------------
\* The factory's cache.

\* The requests that reached ensureInitialized with an installation id.
Asked(q) == wpc[q] # "waiting" /\ payload[q].installation # 0

\* C28: between two clearCache calls the factory creates at most one bundle
\* per installation id: all the requests of one installation that are
\* processed between the same two clears are processed with the same bundle
\* (so with the same review and assistant workflow instances), the bundles
\* created so far are no more than the pairs of an installation and a
\* period between clears in which it was asked for, and the bundle the
\* WebhookService holds is the cached bundle of its installation.
C28_OneBundlePerInstallationBetweenClears ==
    /\ \A q \in Reqs : \A o \in Reqs :
          (/\ Processed(q) /\ Processed(o)
           /\ payload[q].installation = payload[o].installation
           /\ epoch[q] = epoch[o])
          => services[q] = services[o]
    /\ created <= Cardinality({ <<payload[q].installation, epoch[q]>> :
                                  q \in { o \in Reqs : Asked(o) } })
    /\ \A i \in Installations :
          serviceInstances[generateCacheKey(i)] # NoServices
          => serviceInstances[generateCacheKey(i)].installationId = i
    /\ isInitialized
       => currentServices = serviceInstances[generateCacheKey(currentInstallationId)]

\* Installation 1 is served, then installation 2, then installation 1 again
\* from the cache: two bundles were created and the first and the third
\* request share one.
C28_Witness ==
    /\ Processed(1) /\ Processed(2) /\ Processed(3)
    /\ payload[1].installation = 1 /\ payload[2].installation = 2
    /\ payload[3].installation = 1
    /\ epoch[1] = epoch[3]
    /\ services[1] = services[3] /\ services[1] # services[2]
    /\ created = 2

\* Request q is received in this step and passes the signature check.
ProcessedNow(q) ==
    wpc[q] = "waiting" /\ wpc'[q] # "waiting" /\ services'[q] # NoServices

InstallationEvent(p) ==
    p.event \in {"installation", "installation_repositories"}

\* No bundle cached, WebhookService uninitialized.
Cleared ==
    /\ \A k \in CacheKeys : serviceInstances[k] = NoServices
    /\ ~isInitialized
    /\ currentServices = NoServices
    /\ currentInstallationId = 0

\* The next webhook after a clear builds a bundle no request has had.
FreshAfterClear(q) ==
    (clears > 0 /\ Cleared)
    => /\ created' = created + 1
       /\ services'[q].serial = created + 1
       /\ \A o \in Reqs \ {q} : services'[q] # services[o]

\* C29, as claimed: a processed installation or installation_repositories
\* event with action deleted or suspend leaves the cache empty and the
\* WebhookService uninitialized, and the next webhook builds a fresh bundle;
\* an installation event with any other action leaves the cache and the
\* WebhookService state as they were.
C29_OtherInstallationEventsChangeNothing ==
    [][\A q \in Reqs : ProcessedNow(q) =>
          /\ FreshAfterClear(q)
          /\ InstallationEvent(payload'[q]) =>
                IF payload'[q].action \in {"deleted", "suspend"}
                THEN Cleared'
                ELSE UNCHANGED <<serviceInstances, isInitialized,
                                 currentServices, currentInstallationId>>]_vars

\* C29, amended: a processed installation or installation_repositories
\* event with action deleted or suspend leaves the cache empty and the
\* WebhookService uninitialized, and the next webhook builds a fresh bundle;
\* an installation event with any other action removes nothing: like any
\* other webhook it makes the bundle of its own installation the current
\* one, building and caching it if the cache has none, and keeps every
\* other entry of the cache.
C29_OnlyDeletedAndSuspendClear ==
    [][\A q \in Reqs : ProcessedNow(q) =>
          /\ FreshAfterClear(q)
          /\ InstallationEvent(payload'[q]) =>
                IF payload'[q].action \in {"deleted", "suspend"}
                THEN Cleared'
                ELSE LET i == payload'[q].installation
                     IN /\ \A k \in CacheKeys \ {generateCacheKey(i)} :
                              serviceInstances'[k] = serviceInstances[k]
                        /\ serviceInstances'[generateCacheKey(i)] =
                              IF serviceInstances[generateCacheKey(i)] = NoServices
                              THEN Bundle(i, created + 1)
                              ELSE serviceInstances[generateCacheKey(i)]
                        /\ isInitialized'
                        /\ currentInstallationId' = i
                        /\ currentServices' = serviceInstances'[generateCacheKey(i)]
                        /\ clears' = clears]_vars

\* Installation 1 is served, a suspend event clears everything, and
\* installation 1 is served again with another bundle; then nothing has
\* been cleared since.
C29_Witness ==
    /\ Processed(1) /\ Processed(2) /\ Processed(3)
    /\ payload[1].installation = 1 /\ payload[1].event = "pull_request"
    /\ payload[2].event = "installation" /\ payload[2].action = "suspend"
    /\ payload[3].installation = 1 /\ payload[3].event = "installation"
    /\ payload[3].action = "created"
    /\ epoch[1] = 0 /\ epoch[3] = 1 /\ clears = 1
    /\ services[3] # services[1]
    /\ serviceInstances[generateCacheKey(1)] = services[3]

\* ---------------------------------------------------------------------------
\* Comments of bots.

\* The login under which GitHub delivers the app's own comments.
BotLogin == Characters("ai-code-reviewer") \o Characters("[bot]")

CommentEvent(p) ==
    p.event \in {"issue_comment", "pull_request_review_comment"}

\* C30: a received issue_comment or pull_request_review_comment event whose
\* comment author is the bot itself, or any login isCommentFromBot
\* classifies as a bot, is answered 200 at once without starting a workflow
\* run and without a comment being posted for it, whatever its body says
\* and whatever was delivered before.
C30_BotCommentsAreSkipped ==
    \A q \in Reqs :
        (/\ wpc[q] # "waiting"
         /\ CommentEvent(payload[q])
         /\ \/ payload[q].user = BotLogin
            \/ isCommentFromBot(payload[q].user))
        => /\ started[q] = <<>>
           /\ comments[q] = <<>>
           /\ wpc[q] = "responded"
           /\ status[q] = 200

\* A person's mention on a pull request made the bot post a comment; the
\* bot's comment, mentioning the bot with a question, is delivered next and
\* is skipped.
C30_Witness ==
    /\ payload[1].event = "issue_comment" /\ payload[1].onPullRequest
    /\ payload[1].user = <<"a", "n", "n">>
    /\ Len(comments[1]) = 1
    /\ payload[2].event = "issue_comment" /\ payload[2].onPullRequest
    /\ payload[2].user = BotLogin
    /\ isBotMentioned(payload[2].body)
    /\ extractCommand(payload[2].body) # <<>>
    /\ wpc[2] = "responded"
    /\ started[2] = <<>> /\ comments[2] = <<>>

\* ---------------------------------------------------------------------------
\* Mentions of the bot in issue comments.

\* The names under which the bot is mentioned.
MentionNames ==
    { n \in {botUsername, WithoutBotSuffix(botUsername),
             Characters("ai-reviewer"), Characters("ai-code-reviewer")} :
        n # <<>> }

\* The places of body where the bot is mentioned: @name, not followed by a
\* character that continues the name.
MentionsOfBot(body) ==
    { m \in (1..Len(body)) \X MentionNames :
        /\ MentionAt(body, m[1], m[2])
        /\ \/ m[1] + Len(m[2]) = Len(body)
           \/ ~WordCharacter(body[m[1] + Len(m[2]) + 1]) }

\* Some mention of the bot is followed by text other than white space.
MentionFollowedByText(body) ==
    \E m \in MentionsOfBot(body) :
        \E i \in (m[1] + Len(m[2]) + 1)..Len(body) : body[i] # " "

\* An issue comment on a pull request, by an author that is no bot, whose
\* body mentions the bot.
MentionOnPullRequest(p) ==
    /\ p.event = "issue_comment"
    /\ p.onPullRequest
    /\ ~isCommentFromBot(p.user)
    /\ MentionsOfBot(p.body) # {}

\* C31: an issue_comment event starts an assistant run only if the issue is
\* a pull request, the author is not a bot and the body mentions the bot;
\* when no text follows the mention, no workflow run is started and the
\* one comment the handler posts is the greeting; otherwise exactly one
\* assistant run is started, with context type 'mention' and the text
\* extractCommand extracts as the user query.
C31_MentionGreetsOrStartsOneRun ==
    \A q \in Reqs :
        (wpc[q] # "waiting" /\ payload[q].event = "issue_comment")
        => LET p == payload[q]
           IN /\ started[q] # <<>> => MentionOnPullRequest(p)
              /\ ~MentionOnPullRequest(p) => comments[q] = <<>>
              /\ (MentionOnPullRequest(p) /\ ~MentionFollowedByText(p.body))
                 => /\ started[q] = <<>>
                    /\ wpc[q] \in {"createPRComment", "responded"}
                    /\ Len(comments[q]) <= 1
                    /\ wpc[q] = "createPRComment" => comments[q] = <<>>
              /\ (MentionOnPullRequest(p) /\ MentionFollowedByText(p.body))
                 => /\ Len(started[q]) = 1
                    /\ started[q][1].service = "assistantService"
                    /\ started[q][1].context.defined
                    /\ started[q][1].context.value.type = "mention"
                    /\ started[q][1].context.value.userQuery
                          = extractCommand(p.body)
                    /\ extractCommand(p.body) # <<>>

\* ---------------------------------------------------------------------------
\* The loader's cache.

\* A load is made in this step.
LoadStep == loadResult' # loadResult \/ reads' # reads

\* What the files of a cache key hold now: <<prompts>>, or <<>> when they
\* cannot be read.
OnDisk(cacheKey) ==
    IF cacheKey[1] = "workflow-"
    THEN IF promptFiles[cacheKey[2]].yml = Unreadable THEN <<>>
         ELSE <<ReadWorkflowPrompts(cacheKey[2])>>
    ELSE IF promptFiles[cacheKey[2]].md = Unreadable THEN <<>>
         ELSE <<ReadAgentPrompts(cacheKey[2])>>

\* C32: a load leaves the entries of the other names and kinds alone; once
\* a load for a key has succeeded and until clearCache is called, every
\* load for the key returns the object that load made, without reading the
\* files and whatever has become of them; a load for a key without such a
\* load since the last clearCache reads the files: if they can be read it
\* returns a new object with what they hold now and caches it, and if not
\* it throws and leaves the cache as it was.
C32_LoadsAreCachedUntilCleared ==
    [][LoadStep =>
        LET k == loadResult'.key
        IN /\ \A j \in PromptCacheKeys \ {k} :
                 promptsCache'[j] = promptsCache[j]
                   /\ cachedObject'[j] = cachedObject[j]
           /\ IF cachedObject[k] # 0
              THEN /\ ~loadResult'.threw
                   /\ ~loadResult'.read /\ reads' = reads
                   /\ loadResult'.object = cachedObject[k]
                   /\ loadResult'.returned = promptsCache[k]
                   /\ promptsCache' = promptsCache
              ELSE /\ loadResult'.read /\ reads' = reads + 1
                   /\ loadResult'.threw <=> OnDisk(k) = <<>>
                   /\ loadResult'.returned = OnDisk(k)
                   /\ promptsCache'[k] = OnDisk(k)
                   /\ loadResult'.threw => promptsCache' = promptsCache
                   /\ ~loadResult'.threw =>
                         /\ loadResult'.object = reads + 1
                         /\ cachedObject'[k] = reads + 1]_vars

\* The workflow prompts of the review workflow, loaded by the constructor,
\* were cleared from the cache and loaded again; then workflow.yml was
\* removed, and the latest load still returned the second object from the
\* cache.
C32_Witness ==
    LET k == WorkflowKey("code-reviewer")
    IN /\ loadResult.key = k
       /\ ~loadResult.threw /\ ~loadResult.read
       /\ promptFiles["code-reviewer"].yml = Unreadable
       /\ loadResult.returned = promptsCache[k]
       /\ loadResult.object = cachedObject[k]
       /\ cachedObject[k] = 2

====
